---- MODULE Spec2Model ----
(***************************************************************************)
(* The local cache (CacheService), the storage service (StorageService)   *)
(* and the state containers (FavoritesProvider, MovieProvider,             *)
(* ThemeProvider) of the movie browser, over the AsyncStorage key-value    *)
(* store.                                                                  *)
(*                                                                         *)
(* Time is counted in units of 15 minutes (Date.now() / 900000), so the    *)
(* 30 minute defaultExpirationTime is 2.  Stored strings are modelled by   *)
(* the value JSON.parse gives for them: every stored value is built from   *)
(* numbers, strings, arrays and plain objects, on which                    *)
(* JSON.parse(JSON.stringify(x)) is x.  getItem's null and a get's null    *)
(* are the empty sequence <<>>, a value x that is there is <<x>>.          *)
(* Every storage call succeeds and every handler runs to its end before    *)
(* the next one starts, within one clock value: the two Date.now() of a    *)
(* set (payload and metadata) read the same time.                          *)
(***************************************************************************)
EXTENDS Integers, Sequences, FiniteSets, TLC

VARIABLES
    now,        \* Date.now(), in units of 15 minutes
    storage,    \* AsyncStorage: key -> <<>> (absent) or <<parsed value>>
    state,      \* FavoritesProvider: the reducer's current state
    rendered,   \* the state of the last render: what the handlers' closures read
    lastSet,    \* history: key -> <<[data, timestamp, ttl]>> of the last set of the
                \* key that no remove or clear of the key has followed, else <<>>
    movieState, \* MovieProvider: the reducer's current state
    movieRendered, \* the MovieProvider state of the last render: what isFavorite reads
    themeState, \* ThemeProvider: the reducer's current state
    themeRendered, \* the theme state of the last render, whose effects have run:
                \* what toggleTheme and the subscribed Appearance listener read
    platform,   \* Appearance.getColorScheme()
    tasks,      \* CacheService: the calls in progress, each at one of its awaits
    requests,   \* MovieProvider: the requests sent whose response has not arrived
    mounting,   \* FavoritesProvider: whether loadCachedData is in flight, and
                \* what its two reads have returned
    ret         \* history: the handler that ran last, if it was a get (with its key
                \* and result), a clear or a sweep (with what it found) or a
                \* provider's handler, else "none"

\* the variables of the other providers
movieVars == <<movieState, movieRendered>>
themeVars == <<themeState, themeRendered, platform>>

\* the calls in flight
flightVars == <<tasks, requests, mounting>>

vars == <<now, storage, state, rendered, lastSet, ret, movieVars, themeVars, flightVars>>

(***************************************************************************)
(* Bounds                                                                  *)
(***************************************************************************)
MaxTime == 3             \* the clock stops here
MaxTtl == 3              \* largest expiresIn argument tried
maxCacheSize == 2        \* config.maxCacheSize (a constructor parameter)
MaxRecentlyViewed == 3   \* length kept by ADD_RECENTLY_VIEWED's slice
MaxListLen == 3          \* longest favorites list the inputs may build
MaxImport == 2           \* longest importFavorites batch
MAX_SEARCH_HISTORY == 3  \* length kept by the search history's slice
MaxFailAt == 6           \* the latest AsyncStorage call of an operation made to throw
MaxPages == 2            \* pages the movie API serves, and the largest total_pages
MaxTasks == 2            \* CacheService calls in progress at a time
MaxRequests == 2         \* MovieProvider requests in flight at a time
MaxMovies == 3           \* movies the fetches may load, over all five lists

\* config.defaultExpirationTime: 30 minutes
defaultExpirationTime == 2
\* cacheMovieList: 15 minutes
MovieListTtl == 1
\* cacheGenres: 24 hours
GenresTtl == 96

(***************************************************************************)
(* Keys.  A key is <<prefix, rest>>: the string prefix + rest.             *)
(***************************************************************************)
KEYS ==
    [ POPULAR_MOVIES  |-> <<"cache_", "popular_movies">>,
      GENRES          |-> <<"cache_", "genres">>,
      FAVORITES       |-> <<"cache_", "favorites">>,
      RECENTLY_VIEWED |-> <<"cache_", "recently_viewed">>,
      CACHE_METADATA  |-> <<"cache_", "metadata">> ]

STORAGE_KEYS ==
    [ FAVORITES        |-> <<"@MovieBrowserApp:", "favorites">>,
      SEARCH_HISTORY   |-> <<"@MovieBrowserApp:", "searchHistory">>,
      USER_PREFERENCES |-> <<"@MovieBrowserApp:", "userPreferences">> ]

THEME_STORAGE_KEY == <<"@movie_browser_", "theme">>

\* key.startsWith('cache_')
StartsWithCache(key) == key[1] = "cache_"

EntryKeys == {KEYS.POPULAR_MOVIES, KEYS.GENRES, KEYS.FAVORITES, KEYS.RECENTLY_VIEWED}
\* the keys set, get and remove are called with directly; the user-data keys
\* are written through cacheFavorites and cacheRecentlyViewed
SetKeys == {KEYS.POPULAR_MOVIES, KEYS.GENRES}
AllKeys == EntryKeys \cup {KEYS.CACHE_METADATA, STORAGE_KEYS.FAVORITES,
                           STORAGE_KEYS.SEARCH_HISTORY, STORAGE_KEYS.USER_PREFERENCES,
                           THEME_STORAGE_KEY}

(***************************************************************************)
(* Movies                                                                  *)
(***************************************************************************)
Movie(id, title) == [id |-> id, title |-> title]

\* what the favorites handlers are called with: two records share id 1
FavMovies == {Movie(1, "A"), Movie(1, "B"), Movie(2, "A")}
\* what addToRecentlyViewed is called with: one more id than the list keeps
ViewMovies == {Movie(i, "A") : i \in 1..(MaxRecentlyViewed + 1)}
\* ids removeFromFavorites is called with: 3 is never a favorite
FavIds == {1, 2, 3}
\* payloads of the list caches
Payloads == {<<>>, <<Movie(1, "A")>>}
\* expiresIn arguments: left out (0), shorter and longer than the default
Ttls == {0, 1, MaxTtl}

(***************************************************************************)
(* Sequence helpers; Array.prototype.filter is SelectSeq                    *)
(***************************************************************************)
\* s.slice(0, n)
Slice0(s, n) == SubSeq(s, 1, IF Len(s) < n THEN Len(s) ELSE n)

Ids(s) == [i \in 1..Len(s) |-> s[i].id]
NoDuplicateId(s) == \A i, j \in 1..Len(s) : s[i].id = s[j].id => i = j
Count(s, id) == Cardinality({i \in 1..Len(s) : s[i].id = id})

(***************************************************************************)
(* CacheService                                                            *)
(***************************************************************************)
None == <<>>
Present(x) == <<x>>

GetItem(st, key) == st[key]
SetItem(st, key, value) == [st EXCEPT ![key] = <<value>>]
RemoveItem(st, key) == [st EXCEPT ![key] = <<>>]
MultiRemove(st, keys) == [k \in DOMAIN st |-> IF k \in keys THEN <<>> ELSE st[k]]
GetAllKeys(st) == {k \in DOMAIN st : st[k] # <<>>}

\* mutant: the expiry pass of the sweep left out
ExpirePassSkipped(st, keys, t) == st

\* mutant: a strict comparison turned into >=
IsCacheExpiredGe(cacheItem, t) ==
    IF cacheItem.expiresIn = 0 THEN FALSE
    ELSE t - cacheItem.timestamp >= cacheItem.expiresIn

\* isCacheExpired; a missing or zero expiresIn is falsy
isCacheExpired(cacheItem, t) ==
    IF cacheItem.expiresIn = 0 THEN FALSE
    ELSE t - cacheItem.timestamp > cacheItem.expiresIn

\* the metadata map is a JSON object: its entries in insertion order
getCacheMetadata(st) ==
    IF GetItem(st, KEYS.CACHE_METADATA) = <<>> THEN <<>>
    ELSE GetItem(st, KEYS.CACHE_METADATA)[1]

MetaKeys(metadata) == {metadata[i].key : i \in 1..Len(metadata)}

\* metadata[key] = t: an existing property keeps its place, a new one goes last
MetaPut(metadata, key, t) ==
    IF key \in MetaKeys(metadata)
    THEN [i \in 1..Len(metadata) |->
            IF metadata[i].key = key THEN [key |-> key, ts |-> t] ELSE metadata[i]]
    ELSE Append(metadata, [key |-> key, ts |-> t])

\* delete metadata[key]
MetaDelete(metadata, key) ==
    LET Keep(e) == e.key # key IN SelectSeq(metadata, Keep)

updateCacheMetadata(st, key, t) ==
    SetItem(st, KEYS.CACHE_METADATA, MetaPut(getCacheMetadata(st), key, t))

removeCacheMetadata(st, key) ==
    SetItem(st, KEYS.CACHE_METADATA, MetaDelete(getCacheMetadata(st), key))

\* the cacheItem of set: expiresIn || this.config.defaultExpirationTime
CacheItem(data, expiresIn, t) ==
    [data |-> data,
     timestamp |-> t,
     expiresIn |-> IF expiresIn = 0 THEN defaultExpirationTime ELSE expiresIn]

\* set(key, data, expiresIn); expiresIn 0 stands for an omitted (or zero) argument
CacheSet(st, key, data, expiresIn, t) ==
    updateCacheMetadata(SetItem(st, key, CacheItem(data, expiresIn, t)), key, t)

\* mutant: the payload removed, the metadata entry left behind
CacheRemovePayloadOnly(st, key) == RemoveItem(st, key)

\* remove(key)
CacheRemove(st, key) == removeCacheMetadata(RemoveItem(st, key), key)

\* get(key): the value returned
CacheGetResult(st, key, t) ==
    IF GetItem(st, key) = <<>> THEN None
    ELSE IF isCacheExpired(GetItem(st, key)[1], t) THEN None
    ELSE Present(GetItem(st, key)[1].data)

\* get(key): the storage it leaves
CacheGetStorage(st, key, t) ==
    IF GetItem(st, key) = <<>> THEN st
    ELSE IF isCacheExpired(GetItem(st, key)[1], t) THEN CacheRemove(st, key)
    ELSE st

\* mutant: the metadata map removed, the payloads left behind
CacheClearMetadataOnly(st) == RemoveItem(st, KEYS.CACHE_METADATA)

\* clear()
CacheClear(st) ==
    RemoveItem(MultiRemove(st, {k \in GetAllKeys(st) : StartsWithCache(k)}),
               KEYS.CACHE_METADATA)

\* cleanupExpiredItems, the loop over Object.keys(metadata)
RECURSIVE ExpirePass(_, _, _)
ExpirePass(st, keys, t) ==
    IF keys = <<>> THEN st
    ELSE LET key == Head(keys)
             cached == GetItem(st, key)
         IN ExpirePass(IF cached # <<>> /\ isCacheExpired(cached[1], t)
                       THEN CacheRemove(st, key) ELSE st,
                       Tail(keys), t)

\* entries.sort(([, a], [, b]) => a - b): a stable sort by timestamp
RECURSIVE SortByTs(_)
InsertByTs(e, sorted) ==
    LET n == Cardinality({i \in 1..Len(sorted) : sorted[i].ts <= e.ts})
    IN SubSeq(sorted, 1, n) \o <<e>> \o SubSeq(sorted, n + 1, Len(sorted))
SortByTs(entries) ==
    IF entries = <<>> THEN <<>>
    ELSE InsertByTs(entries[Len(entries)], SortByTs(SubSeq(entries, 1, Len(entries) - 1)))

\* mutant: the entries taken in the order of the metadata map, unsorted
ToRemoveUnsorted(st) ==
    LET entries == getCacheMetadata(st)
    IN IF Len(entries) > maxCacheSize
       THEN Slice0(entries, Len(entries) - maxCacheSize)
       ELSE <<>>

\* enforceCacheSize: entries.slice(0, entries.length - maxCacheSize), when too many
ToRemove(st) ==
    LET entries == getCacheMetadata(st)
    IN IF Len(entries) > maxCacheSize
       THEN Slice0(SortByTs(entries), Len(entries) - maxCacheSize)
       ELSE <<>>

RECURSIVE RemoveAll(_, _)
RemoveAll(st, entries) ==
    IF entries = <<>> THEN st
    ELSE RemoveAll(CacheRemove(st, Head(entries).key), Tail(entries))

enforceCacheSize(st) == RemoveAll(st, ToRemove(st))

MetaKeySeq(metadata) == [i \in 1..Len(metadata) |-> metadata[i].key]

\* cleanupExpiredItems
cleanupExpiredItems(st, t) ==
    enforceCacheSize(ExpirePass(st, MetaKeySeq(getCacheMetadata(st)), t))

\* the keys the size pass of a sweep of st at t evicts
EvictedKeys(st, t) ==
    LET rm == ToRemove(ExpirePass(st, MetaKeySeq(getCacheMetadata(st)), t))
    IN {rm[i].key : i \in 1..Len(rm)}

\* getCacheStats(): totalItems, oldestItem and newestItem; totalSize, a sum of
\* string lengths, is left out
getCacheStats(st) ==
    LET entries == SortByTs(getCacheMetadata(st))
    IN IF Len(entries) = 0
       THEN [totalItems |-> 0, oldestItem |-> None, newestItem |-> None]
       ELSE [totalItems |-> Len(entries),
             oldestItem |-> Present(entries[1].key),
             newestItem |-> Present(entries[Len(entries)].key)]

(***************************************************************************)
(* CacheService over a store that fails: the fail-th AsyncStorage call of  *)
(* an operation throws (fail = 0: none does).  An operation in progress    *)
(* is [st, n, thrown]: the storage, the number of AsyncStorage calls made  *)
(* so far, and whether an error is on its way to the enclosing catch.      *)
(***************************************************************************)
Call0(st) == [st |-> st, n |-> 0, thrown |-> FALSE]

\* the next AsyncStorage call throws
Throws(c, fail) == c.n + 1 = fail

\* a call that leaves the storage as it is: a read, or a call that throws
Called(c) == [c EXCEPT !.n = c.n + 1]

\* a call that succeeds and leaves storage st
Wrote(c, st) == [c EXCEPT !.st = st, !.n = c.n + 1]

\* getCacheMetadata(): the map returned; its catch returns {}
getCacheMetadataF(c, fail) ==
    IF Throws(c, fail) THEN <<>> ELSE getCacheMetadata(c.st)

\* updateCacheMetadata(key): its catch swallows the error of setItem
updateCacheMetadataF(c, key, t, fail) ==
    LET metadata == MetaPut(getCacheMetadataF(c, fail), key, t)
        c1 == Called(c)
    IN IF Throws(c1, fail) THEN Called(c1)
       ELSE Wrote(c1, SetItem(c1.st, KEYS.CACHE_METADATA, metadata))

\* removeCacheMetadata(key)
removeCacheMetadataF(c, key, fail) ==
    LET metadata == MetaDelete(getCacheMetadataF(c, fail), key)
        c1 == Called(c)
    IN IF Throws(c1, fail) THEN Called(c1)
       ELSE Wrote(c1, SetItem(c1.st, KEYS.CACHE_METADATA, metadata))

\* set(key, data, expiresIn): a throw of setItem goes to set's catch
CacheSetF(c, key, data, expiresIn, t, fail) ==
    IF Throws(c, fail) THEN Called(c)
    ELSE updateCacheMetadataF(Wrote(c, SetItem(c.st, key, CacheItem(data, expiresIn, t))),
                              key, t, fail)

\* remove(key)
CacheRemoveF(c, key, fail) ==
    IF Throws(c, fail) THEN Called(c)
    ELSE removeCacheMetadataF(Wrote(c, RemoveItem(c.st, key)), key, fail)

\* get(key): the value returned; get's catch returns null
CacheGetResultF(c, key, t, fail) ==
    IF Throws(c, fail) THEN None ELSE CacheGetResult(c.st, key, t)

\* get(key): the operation
CacheGetF(c, key, t, fail) ==
    IF Throws(c, fail) THEN Called(c)
    ELSE IF GetItem(c.st, key) # <<>> /\ isCacheExpired(GetItem(c.st, key)[1], t)
         THEN CacheRemoveF(Called(c), key, fail)
         ELSE Called(c)

\* clear(): getAllKeys, multiRemove, removeItem
CacheClearF(c, fail) ==
    LET cacheKeys == {k \in GetAllKeys(c.st) : StartsWithCache(k)}
        c1 == Called(c)
        c2 == Wrote(c1, MultiRemove(c1.st, cacheKeys))
    IN IF Throws(c, fail) THEN c1
       ELSE IF Throws(c1, fail) THEN Called(c1)
       ELSE IF Throws(c2, fail) THEN Called(c2)
       ELSE Wrote(c2, RemoveItem(c2.st, KEYS.CACHE_METADATA))

\* cleanupExpiredItems, the loop: a throw of its getItem leaves the loop
RECURSIVE ExpirePassF(_, _, _, _)
ExpirePassF(c, keys, t, fail) ==
    IF keys = <<>> \/ c.thrown THEN c
    ELSE IF Throws(c, fail) THEN [Called(c) EXCEPT !.thrown = TRUE]
    ELSE LET key == Head(keys)
             cached == GetItem(c.st, key)
         IN ExpirePassF(IF cached # <<>> /\ isCacheExpired(cached[1], t)
                        THEN CacheRemoveF(Called(c), key, fail) ELSE Called(c),
                        Tail(keys), t, fail)

RECURSIVE RemoveAllF(_, _, _)
RemoveAllF(c, entries, fail) ==
    IF entries = <<>> THEN c
    ELSE RemoveAllF(CacheRemoveF(c, Head(entries).key, fail), Tail(entries), fail)

\* enforceCacheSize
enforceCacheSizeF(c, fail) ==
    LET entries == getCacheMetadataF(c, fail)
        toRemove == IF Len(entries) > maxCacheSize
                    THEN Slice0(SortByTs(entries), Len(entries) - maxCacheSize)
                    ELSE <<>>
    IN RemoveAllF(Called(c), toRemove, fail)

\* cleanupExpiredItems: its catch ends the sweep before enforceCacheSize
cleanupExpiredItemsF(c, t, fail) ==
    LET keys == MetaKeySeq(getCacheMetadataF(c, fail))
        swept == ExpirePassF(Called(c), keys, t, fail)
    IN IF swept.thrown THEN [swept EXCEPT !.thrown = FALSE]
       ELSE enforceCacheSizeF(swept, fail)

\* getCacheStats(): getCacheMetadata, getAllKeys, then a getItem for each cache
\* key; its catch returns the statistics of an empty cache
getCacheStatsF(c, fail) ==
    LET entries == getCacheMetadataF(c, fail)
        cacheKeys == {k \in GetAllKeys(c.st) : StartsWithCache(k)}
        empty == [totalItems |-> 0, oldestItem |-> None, newestItem |-> None]
    IN IF Len(entries) = 0 THEN empty
       ELSE IF fail >= 2 /\ fail <= 2 + Cardinality(cacheKeys) THEN empty
       ELSE getCacheStats(c.st)

\* the number of AsyncStorage calls getCacheStats() makes
getCacheStatsCalls(c, fail) ==
    LET entries == getCacheMetadataF(c, fail)
        cacheKeys == {k \in GetAllKeys(c.st) : StartsWithCache(k)}
    IN IF Len(entries) = 0 THEN 1
       ELSE IF fail >= 2 /\ fail <= 2 + Cardinality(cacheKeys) THEN fail
       ELSE 2 + Cardinality(cacheKeys)

(***************************************************************************)
(* Strings: the search queries, with toLowerCase and trim as they act on   *)
(* them                                                                    *)
(***************************************************************************)
\* two spellings of one title, three more titles than the history keeps after
\* them, and a query of white space
Queries == {"Up", "up", "Jaws", "Heat", "Dune", " "}

ToLowerCase(s) ==
    CASE s = "Up" -> "up"
      [] s = "Jaws" -> "jaws"
      [] s = "Heat" -> "heat"
      [] s = "Dune" -> "dune"
      [] OTHER -> s

Trim(s) == IF s = " " THEN "" ELSE s

(***************************************************************************)
(* StorageService: the search history                                      *)
(***************************************************************************)
getSearchHistory(st) ==
    IF GetItem(st, STORAGE_KEYS.SEARCH_HISTORY) = <<>> THEN <<>>
    ELSE GetItem(st, STORAGE_KEYS.SEARCH_HISTORY)[1]

saveSearchHistory(st, searches) ==
    SetItem(st, STORAGE_KEYS.SEARCH_HISTORY, Slice0(searches, MAX_SEARCH_HISTORY))

\* addToSearchHistory: updatedHistory
UpdatedHistory(currentHistory, query) ==
    LET Other(item) == ToLowerCase(item) # ToLowerCase(query)
        filteredHistory == SelectSeq(currentHistory, Other)
    IN Slice0(<<query>> \o filteredHistory, MAX_SEARCH_HISTORY)

\* addToSearchHistory(query): the history returned
StorageAddToSearchHistoryResult(st, query) ==
    IF Trim(query) = "" THEN getSearchHistory(st)
    ELSE UpdatedHistory(getSearchHistory(st), query)

\* addToSearchHistory(query): the storage it leaves
StorageAddToSearchHistory(st, query) ==
    IF Trim(query) = "" THEN st
    ELSE saveSearchHistory(st, UpdatedHistory(getSearchHistory(st), query))

\* clearSearchHistory()
StorageClearSearchHistory(st) == RemoveItem(st, STORAGE_KEYS.SEARCH_HISTORY)

(***************************************************************************)
(* StorageService: the favorites                                           *)
(***************************************************************************)
getFavorites(st) ==
    IF GetItem(st, STORAGE_KEYS.FAVORITES) = <<>> THEN <<>>
    ELSE GetItem(st, STORAGE_KEYS.FAVORITES)[1]

saveFavorites(st, favorites) == SetItem(st, STORAGE_KEYS.FAVORITES, favorites)

\* some(fav => fav.id === id)
HasId(favorites, id) == \E i \in 1..Len(favorites) : favorites[i].id = id

\* addToFavorites(movie): the favorites returned
StorageAddToFavoritesResult(st, movie) ==
    IF HasId(getFavorites(st), movie.id) THEN getFavorites(st)
    ELSE <<movie>> \o getFavorites(st)

\* addToFavorites(movie): the storage it leaves
StorageAddToFavorites(st, movie) ==
    IF HasId(getFavorites(st), movie.id) THEN st
    ELSE saveFavorites(st, <<movie>> \o getFavorites(st))

\* removeFromFavorites(movieId): the favorites returned
StorageRemoveFromFavoritesResult(st, movieId) ==
    LET Other(movie) == movie.id # movieId
    IN SelectSeq(getFavorites(st), Other)

\* removeFromFavorites(movieId): the storage it leaves
StorageRemoveFromFavorites(st, movieId) ==
    saveFavorites(st, StorageRemoveFromFavoritesResult(st, movieId))

(***************************************************************************)
(* movieReducer                                                            *)
(***************************************************************************)
movieInitialState ==
    [ popularMovies |-> <<>>, topRatedMovies |-> <<>>, upcomingMovies |-> <<>>,
      nowPlayingMovies |-> <<>>, searchResults |-> <<>>, genres |-> <<>>,
      loading |-> FALSE, error |-> "null", searchLoading |-> FALSE,
      currentPage |-> 1, totalPages |-> 1, hasMorePages |-> FALSE,
      favorites |-> <<>>, searchQuery |-> "", searchHistory |-> <<>>,
      selectedCategory |-> "popular" ]

\* mutant: the new page put in front of the list
Prepended(list, payload) == payload \o list

\* the APPEND_* cases: [...list, ...action.payload]
Appended(list, payload) == list \o payload

\* mutant: hasMorePages left as it was
PagedFlagKept(st, payload) ==
    [st EXCEPT !.currentPage = payload.page,
               !.totalPages = payload.totalPages,
               !.error = "null"]

\* the four SET_*_MOVIES cases and SET_SEARCH_RESULTS: what they set beside the list
Paged(st, payload) ==
    [st EXCEPT !.currentPage = payload.page,
               !.totalPages = payload.totalPages,
               !.hasMorePages = payload.page < payload.totalPages,
               !.error = "null"]

movieReducer(st, action) ==
    LET payload == action.payload
    IN CASE action.type = "SET_LOADING" -> [st EXCEPT !.loading = payload]
         [] action.type = "SET_ERROR" ->
                [st EXCEPT !.error = payload, !.loading = FALSE, !.searchLoading = FALSE]
         [] action.type = "SET_SEARCH_LOADING" -> [st EXCEPT !.searchLoading = payload]
         [] action.type = "SET_POPULAR_MOVIES" ->
                [Paged(st, payload) EXCEPT !.popularMovies = payload.movies, !.loading = FALSE]
         [] action.type = "SET_TOP_RATED_MOVIES" ->
                [Paged(st, payload) EXCEPT !.topRatedMovies = payload.movies, !.loading = FALSE]
         [] action.type = "SET_UPCOMING_MOVIES" ->
                [Paged(st, payload) EXCEPT !.upcomingMovies = payload.movies, !.loading = FALSE]
         [] action.type = "SET_NOW_PLAYING_MOVIES" ->
                [Paged(st, payload) EXCEPT !.nowPlayingMovies = payload.movies, !.loading = FALSE]
         [] action.type = "APPEND_POPULAR_MOVIES" ->
                [st EXCEPT !.popularMovies = Appended(st.popularMovies, payload), !.loading = FALSE]
         [] action.type = "APPEND_TOP_RATED_MOVIES" ->
                [st EXCEPT !.topRatedMovies = Appended(st.topRatedMovies, payload), !.loading = FALSE]
         [] action.type = "APPEND_UPCOMING_MOVIES" ->
                [st EXCEPT !.upcomingMovies = Appended(st.upcomingMovies, payload), !.loading = FALSE]
         [] action.type = "APPEND_NOW_PLAYING_MOVIES" ->
                [st EXCEPT !.nowPlayingMovies = Appended(st.nowPlayingMovies, payload), !.loading = FALSE]
         [] action.type = "SET_SEARCH_RESULTS" ->
                [Paged(st, payload) EXCEPT !.searchResults = payload.results,
                                           !.searchLoading = FALSE]
         [] action.type = "APPEND_SEARCH_RESULTS" ->
                [st EXCEPT !.searchResults = Appended(st.searchResults, payload),
                           !.searchLoading = FALSE]
         [] action.type = "CLEAR_SEARCH_RESULTS" ->
                [st EXCEPT !.searchResults = <<>>, !.searchQuery = "",
                           !.currentPage = 1, !.totalPages = 1, !.hasMorePages = FALSE]
         [] action.type = "SET_GENRES" -> [st EXCEPT !.genres = payload]
         [] action.type = "SET_FAVORITES" -> [st EXCEPT !.favorites = payload]
         [] action.type = "ADD_TO_FAVORITES" ->
                LET Other(fav) == fav.id # payload.id
                IN [st EXCEPT !.favorites = <<payload>> \o SelectSeq(st.favorites, Other)]
         [] action.type = "REMOVE_FROM_FAVORITES" ->
                LET Other(fav) == fav.id # payload
                IN [st EXCEPT !.favorites = SelectSeq(st.favorites, Other)]
         [] action.type = "SET_SEARCH_QUERY" -> [st EXCEPT !.searchQuery = payload]
         [] action.type = "SET_SEARCH_HISTORY" -> [st EXCEPT !.searchHistory = payload]
         [] action.type = "ADD_TO_SEARCH_HISTORY" ->
                LET Other(item) == item # payload
                    newHistory == Slice0(<<payload>> \o SelectSeq(st.searchHistory, Other),
                                         MAX_SEARCH_HISTORY)
                IN [st EXCEPT !.searchHistory = newHistory]
         [] action.type = "CLEAR_SEARCH_HISTORY" -> [st EXCEPT !.searchHistory = <<>>]
         [] action.type = "SET_SELECTED_CATEGORY" -> [st EXCEPT !.selectedCategory = payload]
         [] action.type = "RESET_PAGINATION" ->
                [st EXCEPT !.currentPage = 1, !.totalPages = 1, !.hasMorePages = FALSE]
         [] OTHER -> st

\* dispatch of a list of actions to the MovieProvider's reducer, in order
RECURSIVE DispatchMovie(_, _)
DispatchMovie(st, actions) ==
    IF actions = <<>> THEN st
    ELSE DispatchMovie(movieReducer(st, Head(actions)), Tail(actions))

(***************************************************************************)
(* StorageService: the user preferences                                    *)
(***************************************************************************)
defaultPreferences == [theme |-> "system", favoriteGenres |-> <<>>, language |-> "en-US"]

\* getUserPreferences(): the preferences returned
getUserPreferences(st) ==
    IF GetItem(st, STORAGE_KEYS.USER_PREFERENCES) = <<>> THEN defaultPreferences
    ELSE GetItem(st, STORAGE_KEYS.USER_PREFERENCES)[1]

saveUserPreferences(st, preferences) ==
    SetItem(st, STORAGE_KEYS.USER_PREFERENCES, preferences)

(***************************************************************************)
(* themeReducer.  colors is MovieColors[scheme] in every case and is left  *)
(* out.  colorScheme is what Appearance reports: light, dark or null.      *)
(***************************************************************************)
ColorSchemeNames == {"light", "dark", "null"}
ThemeModes == {"light", "dark", "system"}

getSystemColorScheme(colorScheme) == IF colorScheme = "dark" THEN "dark" ELSE "light"

getActiveColorScheme(mode, colorScheme) ==
    IF mode = "system" THEN getSystemColorScheme(colorScheme) ELSE mode

\* the reducer; SET_MODE reads Appearance.getColorScheme(), here colorScheme
themeReducer(st, action, colorScheme) ==
    CASE action.type = "SET_MODE" ->
            [st EXCEPT !.mode = action.payload,
                       !.scheme = getActiveColorScheme(action.payload, colorScheme)]
      [] action.type = "SET_SCHEME" -> [st EXCEPT !.scheme = action.payload]
      [] action.type = "SET_LOADING" -> [st EXCEPT !.isLoading = action.payload]
      [] action.type = "INITIALIZE" ->
            [st EXCEPT !.mode = action.payload.mode,
                       !.scheme = action.payload.scheme,
                       !.isLoading = FALSE]
      [] OTHER -> st

\* initialState, evaluated when Appearance reports colorScheme
themeInitialState(colorScheme) ==
    [mode |-> "system", scheme |-> getSystemColorScheme(colorScheme), isLoading |-> TRUE]

(***************************************************************************)
(* Initial state: a fresh install, before the provider's first render      *)
(***************************************************************************)
initialState == [favorites |-> <<>>, recentlyViewed |-> <<>>,
                 isLoading |-> FALSE, error |-> "null"]

NoRet == [op |-> "none", key |-> <<>>, result |-> <<>>]

\* no CacheService call in progress in this slot
Idle == [op |-> "none", key |-> <<>>, pc |-> "idle", item |-> <<>>, metadata |-> <<>>,
         keys |-> <<>>]
\* loadCachedData is not in flight
NotMounting == [inFlight |-> FALSE, read |-> FALSE,
                cachedFavorites |-> <<>>, cachedRecentlyViewed |-> <<>>]
\* a FavoritesProvider handler ran last
Ran(op) == [op |-> op, key |-> <<>>, result |-> <<>>]

Init ==
    /\ now = 0
    /\ storage = [k \in AllKeys |-> <<>>]
    /\ state = initialState
    /\ rendered = initialState
    /\ lastSet = [k \in EntryKeys |-> <<>>]
    /\ ret = NoRet
    /\ movieState = movieInitialState
    /\ movieRendered = movieInitialState
    /\ platform = "light"
    /\ themeState = themeInitialState("light")
    /\ themeRendered = themeInitialState("light")
    /\ tasks = [i \in 1..MaxTasks |-> Idle]
    /\ requests = <<>>
    /\ mounting = NotMounting

(***************************************************************************)
(* The clock and the CacheService handlers                                 *)
(***************************************************************************)
Tick ==
    /\ now < MaxTime
    /\ now' = now + 1
    /\ ret' = NoRet
    /\ UNCHANGED <<storage, state, rendered, lastSet, movieVars, themeVars, flightVars>>

Noted(data, expiresIn) == <<[data |-> data, timestamp |-> now, ttl |-> expiresIn]>>

Set(key, data, expiresIn) ==
    /\ storage' = CacheSet(storage, key, data, expiresIn, now)
    /\ lastSet' = [lastSet EXCEPT ![key] = Noted(data, expiresIn)]
    /\ ret' = NoRet
    /\ UNCHANGED <<now, state, rendered, movieVars, themeVars, flightVars>>

Get(key) ==
    /\ storage' = CacheGetStorage(storage, key, now)
    /\ ret' = [op |-> "get", key |-> key, result |-> CacheGetResult(storage, key, now)]
    /\ UNCHANGED <<now, state, rendered, lastSet, movieVars, themeVars, flightVars>>

\* cacheFavorites(favorites): set with no expiresIn
CacheFavorites(favorites) == Set(KEYS.FAVORITES, favorites, 0)

\* getCachedFavorites()
GetCachedFavorites == Get(KEYS.FAVORITES)

\* cacheRecentlyViewed(movies): set with no expiresIn
CacheRecentlyViewed(movies) == Set(KEYS.RECENTLY_VIEWED, movies, 0)

\* cacheMovieList('popular', movies)
CacheMovieList(movies) == Set(KEYS.POPULAR_MOVIES, movies, MovieListTtl)

\* cacheGenres(genres)
CacheGenres(genres) == Set(KEYS.GENRES, genres, GenresTtl)

Remove(key) ==
    /\ storage' = CacheRemove(storage, key)
    /\ lastSet' = [lastSet EXCEPT ![key] = <<>>]
    /\ ret' = NoRet
    /\ UNCHANGED <<now, state, rendered, movieVars, themeVars, flightVars>>

\* history of a clear: how many payloads it found
Cleared(st) ==
    [op |-> "clear", key |-> <<>>,
     result |-> <<Cardinality({k \in EntryKeys : st[k] # <<>>})>>]

Clear ==
    /\ storage' = CacheClear(storage)
    /\ lastSet' = [k \in EntryKeys |-> <<>>]
    /\ ret' = Cleared(storage)
    /\ UNCHANGED <<now, state, rendered, movieVars, themeVars, flightVars>>

\* history of a sweep: how many entries its expiry pass removed, how many
\* entries its size pass found and how many of them it evicted
Swept(st, t) ==
    LET afterExpiry == ExpirePass(st, MetaKeySeq(getCacheMetadata(st)), t)
    IN [op |-> "sweep", key |-> <<>>,
        result |-> <<[expired |-> Len(getCacheMetadata(st)) - Len(getCacheMetadata(afterExpiry)),
                      found |-> Len(getCacheMetadata(afterExpiry)),
                      evicted |-> Cardinality(EvictedKeys(st, t))]>>]

\* the setInterval callback
Sweep ==
    /\ storage' = cleanupExpiredItems(storage, now)
    /\ lastSet' = [k \in EntryKeys |->
                     IF k \in EvictedKeys(storage, now) THEN <<>> ELSE lastSet[k]]
    /\ ret' = Swept(storage, now)
    /\ UNCHANGED <<now, state, rendered, movieVars, themeVars, flightVars>>

NextCache ==
    \/ Tick
    \/ \E key \in SetKeys, data \in Payloads, expiresIn \in Ttls : Set(key, data, expiresIn)
    \/ \E key \in SetKeys : Get(key)
    \/ \E favorites \in Payloads : CacheFavorites(favorites)
    \/ GetCachedFavorites
    \/ \E key \in SetKeys : Remove(key)
    \/ Clear
    \/ Sweep

SpecCache == Init /\ [][NextCache]_vars

\* the four caches written through their wrappers, remove, clear and the sweep
NextSweep ==
    \/ Tick
    \/ CacheMovieList(<<>>)
    \/ CacheGenres(<<>>)
    \/ CacheFavorites(<<>>)
    \/ CacheRecentlyViewed(<<>>)
    \/ \E key \in EntryKeys : Remove(key)
    \/ Clear
    \/ Sweep

SpecSweep == Init /\ [][NextSweep]_vars

(***************************************************************************)
(* The CacheService handlers over a store that fails.  lastSet is not kept *)
(* by them.                                                                *)
(***************************************************************************)
\* which call of an operation throws, if any
FailAt == 0..MaxFailAt

\* history of an operation c that has ended: whether the call that was to throw
\* was made, whether an error left the operation, and the value returned
Outcome(op, key, c, fail, value) ==
    [op |-> op, key |-> key,
     result |-> <<[failed |-> fail # 0 /\ fail <= c.n, thrown |-> c.thrown, value |-> value]>>]

SetFailing(key, data, expiresIn, fail) ==
    LET c == CacheSetF(Call0(storage), key, data, expiresIn, now, fail)
    IN /\ storage' = c.st
       /\ ret' = Outcome("set", key, c, fail, None)
       /\ UNCHANGED <<now, state, rendered, lastSet, movieVars, themeVars, flightVars>>

GetFailing(key, fail) ==
    LET c == CacheGetF(Call0(storage), key, now, fail)
    IN /\ storage' = c.st
       /\ ret' = Outcome("get", key, c, fail, CacheGetResultF(Call0(storage), key, now, fail))
       /\ UNCHANGED <<now, state, rendered, lastSet, movieVars, themeVars, flightVars>>

RemoveFailing(key, fail) ==
    LET c == CacheRemoveF(Call0(storage), key, fail)
    IN /\ storage' = c.st
       /\ ret' = Outcome("remove", key, c, fail, None)
       /\ UNCHANGED <<now, state, rendered, lastSet, movieVars, themeVars, flightVars>>

ClearFailing(fail) ==
    LET c == CacheClearF(Call0(storage), fail)
    IN /\ storage' = c.st
       /\ ret' = Outcome("clear", <<>>, c, fail, None)
       /\ UNCHANGED <<now, state, rendered, lastSet, movieVars, themeVars, flightVars>>

SweepFailing(fail) ==
    LET c == cleanupExpiredItemsF(Call0(storage), now, fail)
    IN /\ storage' = c.st
       /\ ret' = Outcome("sweep", <<>>, c, fail, None)
       /\ UNCHANGED <<now, state, rendered, lastSet, movieVars, themeVars, flightVars>>

GetCacheStatsFailing(fail) ==
    LET c == [Call0(storage) EXCEPT !.n = getCacheStatsCalls(Call0(storage), fail)]
    IN /\ ret' = Outcome("getCacheStats", <<>>, c, fail,
                         Present(getCacheStatsF(Call0(storage), fail)))
       /\ UNCHANGED <<now, storage, state, rendered, lastSet, movieVars, themeVars, flightVars>>

NextFailSoft ==
    \/ Tick
    \/ \E key \in SetKeys, expiresIn \in {0, 1}, fail \in FailAt :
          SetFailing(key, <<>>, expiresIn, fail)
    \/ \E key \in SetKeys, fail \in FailAt : GetFailing(key, fail)
    \/ \E key \in SetKeys, fail \in FailAt : RemoveFailing(key, fail)
    \/ \E fail \in FailAt : ClearFailing(fail)
    \/ \E fail \in FailAt : SweepFailing(fail)
    \/ \E fail \in FailAt : GetCacheStatsFailing(fail)

SpecFailSoft == Init /\ [][NextFailSoft]_vars

(***************************************************************************)
(* favoritesReducer, one operator for each case                            *)
(***************************************************************************)
SET_LOADING(st, payload) == [st EXCEPT !.isLoading = payload]

SET_ERROR(st, payload) == [st EXCEPT !.error = payload]

SET_FAVORITES(st, payload) == [st EXCEPT !.favorites = payload]

ADD_FAVORITE(st, payload) ==
    LET isAlreadyFavorite ==
            \E i \in 1..Len(st.favorites) : st.favorites[i].id = payload.id
    IN IF isAlreadyFavorite THEN st
       ELSE [st EXCEPT !.favorites = <<payload>> \o st.favorites]

REMOVE_FAVORITE(st, payload) ==
    LET Other(movie) == movie.id # payload
    IN [st EXCEPT !.favorites = SelectSeq(st.favorites, Other)]

SET_RECENTLY_VIEWED(st, payload) == [st EXCEPT !.recentlyViewed = payload]

\* mutant: the existing entry of the id is not filtered out
ADD_RECENTLY_VIEWED_NoFilter(st, payload) ==
    [st EXCEPT !.recentlyViewed =
        Slice0(<<payload>> \o st.recentlyViewed, MaxRecentlyViewed)]

ADD_RECENTLY_VIEWED(st, payload) ==
    LET Other(movie) == movie.id # payload.id
        filteredRecent == SelectSeq(st.recentlyViewed, Other)
    IN [st EXCEPT !.recentlyViewed =
            Slice0(<<payload>> \o filteredRecent, MaxRecentlyViewed)]

CLEAR_RECENTLY_VIEWED(st) == [st EXCEPT !.recentlyViewed = <<>>]

CLEAR_FAVORITES(st) == [st EXCEPT !.favorites = <<>>]

favoritesReducer(st, action) ==
    CASE action.type = "SET_LOADING" -> SET_LOADING(st, action.payload)
      [] action.type = "SET_ERROR" -> SET_ERROR(st, action.payload)
      [] action.type = "SET_FAVORITES" -> SET_FAVORITES(st, action.payload)
      [] action.type = "ADD_FAVORITE" -> ADD_FAVORITE(st, action.payload)
      [] action.type = "REMOVE_FAVORITE" -> REMOVE_FAVORITE(st, action.payload)
      [] action.type = "SET_RECENTLY_VIEWED" -> SET_RECENTLY_VIEWED(st, action.payload)
      [] action.type = "ADD_RECENTLY_VIEWED" -> ADD_RECENTLY_VIEWED(st, action.payload)
      [] action.type = "CLEAR_RECENTLY_VIEWED" -> CLEAR_RECENTLY_VIEWED(st)
      [] action.type = "CLEAR_FAVORITES" -> CLEAR_FAVORITES(st)
      [] OTHER -> st

Action(type, payload) == [type |-> type, payload |-> payload]

\* dispatch of a list of actions, in order
RECURSIVE Dispatch(_, _)
Dispatch(st, actions) ==
    IF actions = <<>> THEN st
    ELSE Dispatch(favoritesReducer(st, Head(actions)), Tail(actions))

(***************************************************************************)
(* FavoritesProvider handlers.  A handler reads the favorites and the      *)
(* recently viewed list of the render it was created in (rendered); its    *)
(* dispatches act on the current state.  The haptic calls change nothing.  *)
(***************************************************************************)

\* cacheService.set(key, list) of a user-data wrapper: no expiresIn
CacheUserData(key, list) ==
    /\ storage' = CacheSet(storage, key, list, 0, now)
    /\ lastSet' = [lastSet EXCEPT ![key] = Noted(list, 0)]

\* React renders the provider again: new closures over the current state
Render ==
    /\ rendered # state
    /\ rendered' = state
    /\ ret' = NoRet
    /\ UNCHANGED <<now, storage, state, lastSet, movieVars, themeVars, flightVars>>

AddToFavorites(movie) ==
    /\ Len(rendered.favorites) < MaxListLen
    /\ Len(state.favorites) < MaxListLen
    /\ state' = Dispatch(state, <<Action("ADD_FAVORITE", movie)>>)
    /\ CacheUserData(KEYS.FAVORITES, <<movie>> \o rendered.favorites)
    /\ ret' = Ran("addToFavorites")
    /\ UNCHANGED <<now, rendered, movieVars, themeVars, flightVars>>

RemoveFromFavorites(movieId) ==
    LET Other(movie) == movie.id # movieId
        updatedFavorites == SelectSeq(rendered.favorites, Other)
    IN /\ state' = Dispatch(state, <<Action("REMOVE_FAVORITE", movieId)>>)
       /\ CacheUserData(KEYS.FAVORITES, updatedFavorites)
       /\ ret' = Ran("removeFromFavorites")
       /\ UNCHANGED <<now, rendered, movieVars, themeVars, flightVars>>

AddToRecentlyViewed(movie) ==
    LET Other(m) == m.id # movie.id
        filteredRecent == SelectSeq(rendered.recentlyViewed, Other)
        newRecentlyViewed == Slice0(<<movie>> \o filteredRecent, MaxRecentlyViewed)
    IN /\ state' = Dispatch(state, <<Action("ADD_RECENTLY_VIEWED", movie)>>)
       /\ CacheUserData(KEYS.RECENTLY_VIEWED, newRecentlyViewed)
       /\ ret' = Ran("addToRecentlyViewed")
       /\ UNCHANGED <<now, rendered, movieVars, themeVars, flightVars>>

ClearRecentlyViewed ==
    /\ state' = Dispatch(state, <<Action("CLEAR_RECENTLY_VIEWED", <<>>)>>)
    /\ CacheUserData(KEYS.RECENTLY_VIEWED, <<>>)
    /\ ret' = Ran("clearRecentlyViewed")
    /\ UNCHANGED <<now, rendered, movieVars, themeVars, flightVars>>

ClearFavorites ==
    /\ state' = Dispatch(state, <<Action("CLEAR_FAVORITES", <<>>)>>)
    /\ CacheUserData(KEYS.FAVORITES, <<>>)
    /\ ret' = Ran("clearFavorites")
    /\ UNCHANGED <<now, rendered, movieVars, themeVars, flightVars>>

\* importFavorites: allFavorites
AllFavorites(favorites, movies) ==
    LET existingIds == {favorites[i].id : i \in 1..Len(favorites)}
        IsNew(movie) == movie.id \notin existingIds
        newMovies == SelectSeq(movies, IsNew)
    IN favorites \o newMovies

ImportFavorites(movies) ==
    LET allFavorites == AllFavorites(rendered.favorites, movies)
    IN /\ Len(allFavorites) <= MaxListLen
       /\ state' = Dispatch(state, << Action("SET_LOADING", TRUE),
                                      Action("SET_FAVORITES", allFavorites),
                                      Action("SET_LOADING", FALSE) >>)
       /\ CacheUserData(KEYS.FAVORITES, allFavorites)
       /\ ret' = Ran("importFavorites")
       /\ UNCHANGED <<now, rendered, movieVars, themeVars, flightVars>>

\* loadCachedData's dispatches: an array, even an empty one, is truthy
LoadActions(cachedFavorites, cachedRecentlyViewed) ==
    <<Action("SET_LOADING", TRUE)>>
    \o (IF cachedFavorites # None
        THEN <<Action("SET_FAVORITES", cachedFavorites[1])>> ELSE <<>>)
    \o (IF cachedRecentlyViewed # None
        THEN <<Action("SET_RECENTLY_VIEWED", cachedRecentlyViewed[1])>> ELSE <<>>)
    \o <<Action("SET_LOADING", FALSE)>>

\* the app is started again: the provider mounts with initialState, renders, and
\* its effect runs loadCachedData
Restart ==
    LET afterFavorites == CacheGetStorage(storage, KEYS.FAVORITES, now)
    IN /\ state' = Dispatch(initialState,
                      LoadActions(CacheGetResult(storage, KEYS.FAVORITES, now),
                                  CacheGetResult(afterFavorites, KEYS.RECENTLY_VIEWED, now)))
       /\ storage' = CacheGetStorage(afterFavorites, KEYS.RECENTLY_VIEWED, now)
       /\ rendered' = initialState
       /\ ret' = Ran("loadCachedData")
       /\ UNCHANGED <<now, lastSet, movieVars, themeVars, flightVars>>

\* importFavorites batches
Batches == UNION {[1..n -> FavMovies] : n \in 0..MaxImport}

\* the favorites handlers
NextFavorites ==
    \/ Render
    \/ Restart
    \/ \E movie \in FavMovies : AddToFavorites(movie)
    \/ \E movieId \in FavIds : RemoveFromFavorites(movieId)
    \/ ClearFavorites
    \/ \E movies \in Batches : ImportFavorites(movies)

SpecFavorites == Init /\ [][NextFavorites]_vars

(***************************************************************************)
(* The favorites handlers over a store that fails.  Each handler's catch   *)
(* dispatches SET_ERROR when an error leaves cacheFavorites.               *)
(***************************************************************************)
\* the dispatches of a handler's catch block
Caught(c, message) ==
    IF c.thrown THEN <<Action("SET_ERROR", message)>> ELSE <<>>

AddToFavoritesFailing(movie, fail) ==
    LET c == CacheSetF(Call0(storage), KEYS.FAVORITES, <<movie>> \o rendered.favorites,
                       0, now, fail)
    IN /\ Len(rendered.favorites) < MaxListLen
       /\ Len(state.favorites) < MaxListLen
       /\ state' = Dispatch(state, <<Action("ADD_FAVORITE", movie)>>
                                   \o Caught(c, "Failed to add to favorites"))
       /\ storage' = c.st
       /\ ret' = Outcome("addToFavorites", <<>>, c, fail, <<movie.id>>)
       /\ UNCHANGED <<now, rendered, lastSet, movieVars, themeVars, flightVars>>

RemoveFromFavoritesFailing(movieId, fail) ==
    LET Other(m) == m.id # movieId
        updatedFavorites == SelectSeq(rendered.favorites, Other)
        c == CacheSetF(Call0(storage), KEYS.FAVORITES, updatedFavorites, 0, now, fail)
    IN /\ state' = Dispatch(state, <<Action("REMOVE_FAVORITE", movieId)>>
                                   \o Caught(c, "Failed to remove from favorites"))
       /\ storage' = c.st
       /\ ret' = Outcome("removeFromFavorites", <<>>, c, fail, <<movieId>>)
       /\ UNCHANGED <<now, rendered, lastSet, movieVars, themeVars, flightVars>>

ClearFavoritesFailing(fail) ==
    LET c == CacheSetF(Call0(storage), KEYS.FAVORITES, <<>>, 0, now, fail)
    IN /\ state' = Dispatch(state, <<Action("CLEAR_FAVORITES", <<>>)>>
                                   \o Caught(c, "Failed to clear favorites"))
       /\ storage' = c.st
       /\ ret' = Outcome("clearFavorites", <<>>, c, fail, <<>>)
       /\ UNCHANGED <<now, rendered, lastSet, movieVars, themeVars, flightVars>>

ImportFavoritesFailing(movies, fail) ==
    LET allFavorites == AllFavorites(rendered.favorites, movies)
        c == CacheSetF(Call0(storage), KEYS.FAVORITES, allFavorites, 0, now, fail)
    IN /\ Len(allFavorites) <= MaxListLen
       /\ state' = Dispatch(state, << Action("SET_LOADING", TRUE),
                                      Action("SET_FAVORITES", allFavorites) >>
                                   \o Caught(c, "Failed to import favorites")
                                   \o <<Action("SET_LOADING", FALSE)>>)
       /\ storage' = c.st
       /\ ret' = Outcome("importFavorites", <<>>, c, fail, Ids(movies))
       /\ UNCHANGED <<now, rendered, lastSet, movieVars, themeVars, flightVars>>

\* set makes three AsyncStorage calls: which of them throws, if any
SetCalls == 3
SetFailAt == 0..SetCalls

\* importFavorites batches tried over a store that fails
FailingBatches == {<<>>, <<Movie(1, "A")>>, <<Movie(2, "A"), Movie(1, "B")>>}

NextFavoritesFailing ==
    \/ Render
    \/ \E movie \in {Movie(1, "A"), Movie(2, "A")}, fail \in SetFailAt :
          AddToFavoritesFailing(movie, fail)
    \/ \E movieId \in FavIds, fail \in SetFailAt : RemoveFromFavoritesFailing(movieId, fail)
    \/ \E fail \in SetFailAt : ClearFavoritesFailing(fail)
    \/ \E movies \in FailingBatches, fail \in SetFailAt : ImportFavoritesFailing(movies, fail)

SpecFavoritesFailing == Init /\ [][NextFavoritesFailing]_vars

\* the favorites handlers beside the Cache Manager: the clock, the list caches
\* written through their wrappers, remove, clear and the sweep
Next ==
    \/ Render
    \/ \E movie \in {Movie(1, "A"), Movie(2, "A")} : AddToFavorites(movie)
    \/ \E movieId \in FavIds : RemoveFromFavorites(movieId)
    \/ ClearFavorites
    \/ Tick
    \/ CacheMovieList(<<Movie(1, "A")>>)
    \/ CacheGenres(<<>>)
    \/ \E key \in SetKeys : Remove(key)
    \/ Clear
    \/ Sweep

Spec == Init /\ [][Next]_vars

\* the recently-viewed handlers
NextRecentlyViewed ==
    \/ Render
    \/ Restart
    \/ \E movie \in ViewMovies : AddToRecentlyViewed(movie)
    \/ ClearRecentlyViewed

SpecRecentlyViewed == Init /\ [][NextRecentlyViewed]_vars

(***************************************************************************)
(* MovieProvider handlers: the search history                              *)
(***************************************************************************)
\* history of a handler or dispatch that was given a query
RanWith(op, query) == [op |-> op, key |-> <<>>, result |-> <<query>>]

\* addToSearchHistory(query)
AddToSearchHistory(query) ==
    LET updatedHistory == StorageAddToSearchHistoryResult(storage, query)
    IN /\ storage' = StorageAddToSearchHistory(storage, query)
       /\ movieState' = DispatchMovie(movieState,
                            <<Action("SET_SEARCH_HISTORY", updatedHistory)>>)
       /\ ret' = RanWith("addToSearchHistory", query)
       /\ UNCHANGED <<now, state, rendered, lastSet, themeVars, movieRendered, flightVars>>

\* clearSearchHistory()
ClearSearchHistory ==
    /\ storage' = StorageClearSearchHistory(storage)
    /\ movieState' = DispatchMovie(movieState, <<Action("CLEAR_SEARCH_HISTORY", <<>>)>>)
    /\ ret' = Ran("clearSearchHistory")
    /\ UNCHANGED <<now, state, rendered, lastSet, themeVars, movieRendered, flightVars>>

\* dispatch({ type: 'ADD_TO_SEARCH_HISTORY', payload: query }): the reducer's own
\* way to record a search
DispatchAddToSearchHistory(query) ==
    /\ movieState' = DispatchMovie(movieState, <<Action("ADD_TO_SEARCH_HISTORY", query)>>)
    /\ ret' = RanWith("ADD_TO_SEARCH_HISTORY", query)
    /\ UNCHANGED <<now, storage, state, rendered, lastSet, themeVars, movieRendered, flightVars>>

NextSearchHistory ==
    \/ \E query \in Queries : AddToSearchHistory(query)
    \/ ClearSearchHistory
    \/ \E query \in Queries : DispatchAddToSearchHistory(query)

SpecSearchHistory == Init /\ [][NextSearchHistory]_vars

(***************************************************************************)
(* MovieProvider handlers: the fetches.  A handler runs from its request   *)
(* to the end of its response within one step; the movie API's answer is   *)
(* the input outcome.                                                      *)
(***************************************************************************)
Pages == 1..MaxPages

\* a MovieResponse to a request of a page: one movie, named after the page
Responses(page) ==
    {[page |-> page, results |-> <<Movie(page, "A")>>, total_pages |-> n] : n \in 1..MaxPages}

\* what a request may throw: an Error with its message, or a value that is no Error
Errors == {[isError |-> TRUE, message |-> "Network Error"],
           [isError |-> FALSE, message |-> ""]}

\* how a request of a page may end
Outcomes(page) ==
    {[ok |-> TRUE, response |-> r, error |-> <<>>] : r \in Responses(page)}
    \cup {[ok |-> FALSE, response |-> <<>>, error |-> e] : e \in Errors}

\* error instanceof Error ? error.message : fallback
ErrorMessage(error, fallback) == IF error.isError THEN error.message ELSE fallback

MovieCategories == {"popular", "top_rated", "upcoming", "now_playing"}

\* the list, the action types and the fallback message of a category's fetch
ListOf(category) ==
    CASE category = "popular" -> "popularMovies"
      [] category = "top_rated" -> "topRatedMovies"
      [] category = "upcoming" -> "upcomingMovies"
      [] category = "now_playing" -> "nowPlayingMovies"

SetType(category) ==
    CASE category = "popular" -> "SET_POPULAR_MOVIES"
      [] category = "top_rated" -> "SET_TOP_RATED_MOVIES"
      [] category = "upcoming" -> "SET_UPCOMING_MOVIES"
      [] category = "now_playing" -> "SET_NOW_PLAYING_MOVIES"

AppendType(category) ==
    CASE category = "popular" -> "APPEND_POPULAR_MOVIES"
      [] category = "top_rated" -> "APPEND_TOP_RATED_MOVIES"
      [] category = "upcoming" -> "APPEND_UPCOMING_MOVIES"
      [] category = "now_playing" -> "APPEND_NOW_PLAYING_MOVIES"

FetchFallback(category) ==
    CASE category = "popular" -> "Failed to fetch popular movies"
      [] category = "top_rated" -> "Failed to fetch top rated movies"
      [] category = "upcoming" -> "Failed to fetch upcoming movies"
      [] category = "now_playing" -> "Failed to fetch now playing movies"

\* the dispatches of fetchPopularMovies(page) and of its three siblings
FetchDispatches(category, page, outcome) ==
    (IF page = 1
     THEN <<Action("SET_LOADING", TRUE), Action("RESET_PAGINATION", <<>>)>>
     ELSE <<>>)
    \o (IF ~outcome.ok
        THEN <<Action("SET_ERROR", ErrorMessage(outcome.error, FetchFallback(category)))>>
        ELSE IF page = 1
        THEN <<Action(SetType(category),
                      [movies |-> outcome.response.results,
                       page |-> outcome.response.page,
                       totalPages |-> outcome.response.total_pages])>>
        ELSE <<Action(AppendType(category), outcome.response.results)>>)

\* the movies loaded, over the four category lists and the search results
Loaded(st) ==
    Len(st.popularMovies) + Len(st.topRatedMovies) + Len(st.upcomingMovies)
    + Len(st.nowPlayingMovies) + Len(st.searchResults)

FetchMovies(category, page, outcome) ==
    /\ Loaded(movieState) < MaxMovies
    /\ movieState' = DispatchMovie(movieState, FetchDispatches(category, page, outcome))
    /\ ret' = NoRet
    /\ UNCHANGED <<now, storage, state, rendered, lastSet, themeVars, movieRendered, flightVars>>

FetchPopularMovies(page, outcome) == FetchMovies("popular", page, outcome)
FetchTopRatedMovies(page, outcome) == FetchMovies("top_rated", page, outcome)
FetchUpcomingMovies(page, outcome) == FetchMovies("upcoming", page, outcome)
FetchNowPlayingMovies(page, outcome) == FetchMovies("now_playing", page, outcome)

\* tmdbService.searchMovies(query, page): a blank query is answered without a request
SearchOutcome(query, outcome) ==
    IF Trim(query) = ""
    THEN [ok |-> TRUE, response |-> [page |-> 1, results |-> <<>>, total_pages |-> 0],
          error |-> <<>>]
    ELSE outcome

\* the dispatches of searchMovies(query, page) up to its call of addToSearchHistory
SearchDispatches(query, page, outcome) ==
    <<Action("SET_SEARCH_QUERY", query)>>
    \o (IF page = 1
        THEN <<Action("SET_SEARCH_LOADING", TRUE), Action("RESET_PAGINATION", <<>>)>>
        ELSE <<>>)
    \o (IF ~outcome.ok
        THEN <<Action("SET_ERROR", ErrorMessage(outcome.error, "Failed to search movies"))>>
        ELSE IF page = 1
        THEN <<Action("SET_SEARCH_RESULTS",
                      [results |-> outcome.response.results,
                       page |-> outcome.response.page,
                       totalPages |-> outcome.response.total_pages])>>
        ELSE <<Action("APPEND_SEARCH_RESULTS", outcome.response.results)>>)

\* searchMovies(query, page); a search that was answered records its query
SearchMovies(query, page, outcome) ==
    LET answer == SearchOutcome(query, outcome)
        recorded == answer.ok /\ Trim(query) # ""
        updatedHistory == StorageAddToSearchHistoryResult(storage, query)
    IN /\ Loaded(movieState) < MaxMovies
       /\ movieState' = DispatchMovie(movieState,
                            SearchDispatches(query, page, answer)
                            \o (IF recorded
                                THEN <<Action("SET_SEARCH_HISTORY", updatedHistory)>>
                                ELSE <<>>))
       /\ storage' = IF recorded THEN StorageAddToSearchHistory(storage, query) ELSE storage
       /\ ret' = NoRet
       /\ UNCHANGED <<now, state, rendered, lastSet, themeVars, movieRendered, flightVars>>

\* the queries searched for, one of them blank
SearchQueries == {"Up", " "}

NextMovies ==
    \/ \E page \in Pages : \E outcome \in Outcomes(page) : FetchPopularMovies(page, outcome)
    \/ \E page \in Pages : \E outcome \in Outcomes(page) : FetchTopRatedMovies(page, outcome)
    \/ \E page \in Pages : \E outcome \in Outcomes(page) : FetchUpcomingMovies(page, outcome)
    \/ \E page \in Pages : \E outcome \in Outcomes(page) : FetchNowPlayingMovies(page, outcome)
    \/ \E query \in SearchQueries, page \in Pages : \E outcome \in Outcomes(page) :
          SearchMovies(query, page, outcome)

SpecMovies == Init /\ [][NextMovies]_vars

(***************************************************************************)
(* ThemeProvider handlers.  toggleTheme reads the scheme of the render it  *)
(* was created in; the Appearance listener reads the mode of the render    *)
(* whose effect subscribed it.                                             *)
(***************************************************************************)
\* React renders the provider again and runs its effects: toggleTheme is made
\* anew and the Appearance listener is subscribed anew
ThemeRender ==
    /\ themeRendered # themeState
    /\ themeRendered' = themeState
    /\ ret' = NoRet
    /\ UNCHANGED <<now, storage, state, rendered, lastSet, movieVars, themeState, platform, flightVars>>

\* saveThemePreference(mode)
saveThemePreference(st, mode) ==
    LET saved == SetItem(st, THEME_STORAGE_KEY, mode)
        preferences == getUserPreferences(saved)
    IN saveUserPreferences(saved, [preferences EXCEPT !.theme = mode])

\* setThemeMode(mode)
SetThemeMode(mode) ==
    /\ themeState' = themeReducer(themeState, Action("SET_MODE", mode), platform)
    /\ storage' = saveThemePreference(storage, mode)
    /\ ret' = NoRet
    /\ UNCHANGED <<now, state, rendered, lastSet, movieVars, themeRendered, platform, flightVars>>

\* toggleTheme()
ToggleTheme ==
    SetThemeMode(IF themeRendered.scheme = "light" THEN "dark" ELSE "light")

\* the platform's scheme changes to colorScheme and the subscribed listener is
\* called with it
AppearanceChange(colorScheme) ==
    /\ colorScheme # platform
    /\ platform' = colorScheme
    /\ themeState' =
          IF themeRendered.mode = "system"
          THEN themeReducer(themeState,
                            Action("SET_SCHEME", IF colorScheme = "dark" THEN "dark" ELSE "light"),
                            colorScheme)
          ELSE themeState
    /\ ret' = NoRet
    /\ UNCHANGED <<now, storage, state, rendered, lastSet, movieVars, themeRendered, flightVars>>

\* the app is started again: the provider mounts with initialState, renders,
\* subscribes the listener and its effect runs loadThemePreference
ThemeRestart ==
    LET savedTheme == GetItem(storage, THEME_STORAGE_KEY)
        themeMode == IF savedTheme = <<>> THEN "system" ELSE savedTheme[1]
        activeScheme == getActiveColorScheme(themeMode, platform)
    IN /\ themeState' = themeReducer(themeInitialState(platform),
                            Action("INITIALIZE", [mode |-> themeMode, scheme |-> activeScheme]),
                            platform)
       /\ themeRendered' = themeInitialState(platform)
       /\ ret' = NoRet
       /\ UNCHANGED <<now, storage, state, rendered, lastSet, movieVars, platform, flightVars>>

NextTheme ==
    \/ ThemeRender
    \/ ThemeRestart
    \/ \E mode \in ThemeModes : SetThemeMode(mode)
    \/ ToggleTheme
    \/ \E colorScheme \in ColorSchemeNames : AppearanceChange(colorScheme)

SpecTheme == Init /\ [][NextTheme]_vars

(***************************************************************************)
(* Cache Manager properties                                                *)
(***************************************************************************)

\* C1: a get(k) that follows set(k, v, ttl), with no remove, clear or eviction of
\* k in between (other keys may have been written, read, removed or swept) and
\* with no more than ttl elapsed since the set, returns v.
C1_RoundTrip ==
    \A key \in EntryKeys :
        (/\ ret.op = "get"
         /\ ret.key = key
         /\ lastSet[key] # <<>>
         /\ now - lastSet[key][1].timestamp <= lastSet[key][1].ttl)
        => ret.result = Present(lastSet[key][1].data)

\* a get at the very end of a ttl longer than the default returned the value set
C1_Witness ==
    \E key \in SetKeys :
        /\ ret.op = "get"
        /\ ret.key = key
        /\ lastSet[key] # <<>>
        /\ lastSet[key][1].ttl > defaultExpirationTime
        /\ now - lastSet[key][1].timestamp = lastSet[key][1].ttl
        /\ lastSet[key][1].data # <<>>
        /\ ret.result = Present(lastSet[key][1].data)
        /\ \E other \in MetaKeys(getCacheMetadata(storage)) : other # key

\* C2: a get(k) that finds an entry with a ttl and now - timestamp > ttl returns
\* no value and leaves neither the payload of k nor a metadata entry for k,
\* whether or not a sweep ran before.
C2_LazyExpiration ==
    [][\A key \in EntryKeys :
          (/\ ret'.op = "get"
           /\ ret'.key = key
           /\ storage[key] # <<>>
           /\ storage[key][1].expiresIn # 0
           /\ now - storage[key][1].timestamp > storage[key][1].expiresIn)
          => (/\ ret'.result = None
              /\ storage'[key] = <<>>
              /\ key \notin MetaKeys(getCacheMetadata(storage')))]_vars

\* a get answered "no value" for an entry set with a ttl that had run out
C2_Witness ==
    \E key \in SetKeys :
        /\ ret.op = "get"
        /\ ret.key = key
        /\ ret.result = None
        /\ lastSet[key] # <<>>
        /\ lastSet[key][1].ttl > 0
        /\ now - lastSet[key][1].timestamp > lastSet[key][1].ttl
        /\ storage[key] = <<>>
        /\ \E other \in MetaKeys(getCacheMetadata(storage)) : other # key

\* C3: an entry written with no ttl, and not removed, cleared or evicted since,
\* is still stored and is what get returns, however much time has passed.
C3_NoTtlNeverExpires ==
    \A key \in EntryKeys :
        (lastSet[key] # <<>> /\ lastSet[key][1].ttl = 0)
        => /\ storage[key] # <<>>
           /\ CacheGetResult(storage, key, now) = Present(lastSet[key][1].data)

\* an entry whose ttl has elapsed at t: createdAt + ttl < t
Elapsed(st, key, t) ==
    /\ st[key] # <<>>
    /\ st[key][1].timestamp + st[key][1].expiresIn < t

\* the cache keys that hold a payload
CachedEntries(st) == {key \in EntryKeys : st[key] # <<>>}

\* C11: when a sweep has run to its end, with every storage call succeeding and
\* no other cache operation in between, no cached entry is left whose ttl has
\* elapsed, and there are at most maxCacheSize cached entries, in storage and in
\* the metadata map.
C11_AfterSweep ==
    [][Sweep => (/\ \A key \in EntryKeys : ~Elapsed(storage', key, now)
                 /\ Cardinality(CachedEntries(storage')) <= maxCacheSize
                 /\ Len(getCacheMetadata(storage')) <= maxCacheSize)]_vars

\* a sweep removed an expired entry and then evicted an entry that had not
\* expired; as many entries as the cache may hold are left
C11_Witness ==
    /\ ret.op = "sweep"
    /\ ret.result[1].expired > 0
    /\ ret.result[1].evicted > 0
    /\ Cardinality(CachedEntries(storage)) = maxCacheSize

\* the metadata entries the size pass of a sweep of st at t finds
FoundBySizePass(st, t) ==
    getCacheMetadata(ExpirePass(st, MetaKeySeq(getCacheMetadata(st)), t))

\* C20: size eviction is oldest-first: when the sweep finds n > maxCacheSize
\* metadata entries it evicts exactly n - maxCacheSize keys, payload and metadata,
\* and every evicted key has a metadata timestamp less than or equal to the
\* timestamp of every key that survives.
C20_OldestFirst ==
    [][Sweep =>
        LET found == FoundBySizePass(storage, now)
            left == MetaKeys(getCacheMetadata(storage'))
            evicted == {i \in 1..Len(found) : found[i].key \notin left}
            survived == (1..Len(found)) \ evicted
        IN Len(found) > maxCacheSize
           => /\ Cardinality(evicted) = Len(found) - maxCacheSize
              /\ \A i \in evicted : GetItem(storage', found[i].key) = <<>>
              /\ \A j \in survived : GetItem(storage', found[j].key) # <<>>
              /\ \A i \in evicted, j \in survived : found[i].ts <= found[j].ts]_vars

\* a sweep found more entries than the cache may hold and evicted the surplus;
\* the entries left were written at different times
C20_Witness ==
    /\ ret.op = "sweep"
    /\ ret.result[1].found > maxCacheSize
    /\ ret.result[1].evicted = ret.result[1].found - maxCacheSize
    /\ Len(getCacheMetadata(storage)) = maxCacheSize
    /\ \E i, j \in 1..Len(getCacheMetadata(storage)) :
          getCacheMetadata(storage)[i].ts < getCacheMetadata(storage)[j].ts

\* the AsyncStorage call of set that writes the payload: its first
PayloadWrite == 1

\* a set whose payload write fails raises no error
FailedSetSilent ==
    [][\A key \in SetKeys, expiresIn \in {0, 1} :
            SetFailing(key, <<>>, expiresIn, PayloadWrite)
            => /\ ret'.result[1].failed
               /\ ~ret'.result[1].thrown
               /\ storage' = storage]_vars

\* C22: whatever the store held before, after a set(k, v) whose payload write
\* fails the next get(k) returns no value, and the set raises no error.
C22_FailedSetIsMiss ==
    [][\A key \in SetKeys, expiresIn \in {0, 1} :
            SetFailing(key, <<>>, expiresIn, PayloadWrite)
            => /\ ~ret'.result[1].thrown
               /\ CacheGetResult(storage', key, now') = None]_vars

\* the Cache Manager operations
CacheOps == {"set", "get", "remove", "clear", "getCacheStats", "sweep"}

\* no error left the operation; a get that met a failure returned no value, a
\* getCacheStats that met one returned the statistics of an empty cache
FailedSoftly ==
    (ret.op \in CacheOps /\ ret.result[1].failed)
    => /\ ~ret.result[1].thrown
       /\ ret.op = "get" => ret.result[1].value = None
       /\ ret.op = "getCacheStats" => ret.result[1].value[1].totalItems = 0

\* C14: whichever AsyncStorage call of a set, get, remove, clear, getCacheStats
\* or sweep throws, no error leaves the operation, a get returns no value, and
\* every other operation ends as a no-op: the storage is as it was before.
C14_FailSoft ==
    /\ []FailedSoftly
    /\ [][(ret'.op \in CacheOps \ {"get"} /\ ret'.result[1].failed)
           => storage' = storage]_vars

(***************************************************************************)
(* Favorites container properties                                          *)
(***************************************************************************)

\* the list stored under a user-data key, whatever its age; none is the empty list
Persisted(st, key) == IF st[key] = <<>> THEN <<>> ELSE st[key][1].data
PersistedFavorites == Persisted(storage, KEYS.FAVORITES)
PersistedRecentlyViewed == Persisted(storage, KEYS.RECENTLY_VIEWED)

IsMember(list, id) == \E i \in 1..Len(list) : list[i].id = id

\* C4: no Cache Manager operation (clear(), the sweep with its expiry pass and
\* its size eviction, remove of another cache key) changes what is stored under
\* the favorites key.
C4_FavoritesUntouchedByCache ==
    [][(Clear \/ Sweep \/ \E key \in SetKeys : Remove(key))
          => storage'[KEYS.FAVORITES] = storage[KEYS.FAVORITES]]_vars

\* C5: a second addToFavorites of a movie that the first call has made the one
\* favorite of its id, in memory and in storage, issued after that state has been
\* rendered, changes neither list.
C5_AddFavoriteIdempotent ==
    [][\A movie \in FavMovies :
          (/\ ret'.op = "addToFavorites"
           /\ AddToFavorites(movie)
           /\ rendered.favorites = state.favorites
           /\ Count(state.favorites, movie.id) = 1
           /\ Count(PersistedFavorites, movie.id) = 1
           /\ PersistedFavorites = state.favorites)
          => (/\ state'.favorites = state.favorites
              /\ PersistedFavorites' = PersistedFavorites
              /\ Count(PersistedFavorites', movie.id) = 1)]_vars

\* C6: no two favorites in memory have the same id.
C6_FavoritesUniqueById == NoDuplicateId(state.favorites)

\* C7: between handlers the stored favorites are the favorites in memory and the
\* stored recently-viewed list is the one in memory.
C7_MemoryEqualsStorage ==
    /\ PersistedFavorites = state.favorites
    /\ PersistedRecentlyViewed = state.recentlyViewed

\* C8: removeFromFavorites of an id that is no favorite changes neither the
\* favorites in memory nor the stored favorites list.
C8_RemoveNonMemberNoOp ==
    [][\A id \in FavIds :
          (/\ ret'.op = "removeFromFavorites"
           /\ RemoveFromFavorites(id)
           /\ ~IsMember(state.favorites, id))
          => (/\ state'.favorites = state.favorites
              /\ PersistedFavorites' = PersistedFavorites)]_vars

\* the mutations of the Favorites container
FavoriteMutations ==
    {"addToFavorites", "removeFromFavorites", "clearFavorites", "importFavorites"}

\* the favorites in memory reflect the mutation that ran last
MutationReflected ==
    LET ids == ret.result[1].value
    IN CASE ret.op = "addToFavorites" -> IsMember(state.favorites, ids[1])
         [] ret.op = "removeFromFavorites" -> ~IsMember(state.favorites, ids[1])
         [] ret.op = "clearFavorites" -> state.favorites = <<>>
         [] ret.op = "importFavorites" ->
                \A i \in 1..Len(ids) : IsMember(state.favorites, ids[i])

\* C15: when the persistence write of addToFavorites, removeFromFavorites,
\* clearFavorites or importFavorites fails, the favorites in memory still
\* reflect the mutation, no error leaves the call, and the container's error
\* state is set.
C15_WriteFailureSignalled ==
    (ret.op \in FavoriteMutations /\ ret.result[1].failed)
    => /\ MutationReflected
       /\ ~ret.result[1].thrown
       /\ state.error # "null"

\* the part of C15 the code keeps: the mutation is reflected and nothing is thrown
MutationKept ==
    (ret.op \in FavoriteMutations /\ ret.result[1].failed)
    => (MutationReflected /\ ~ret.result[1].thrown)

IsPrefix(s, t) == Len(s) <= Len(t) /\ s = SubSeq(t, 1, Len(s))
Min(a, b) == IF a < b THEN a ELSE b

\* C9: the recently-viewed list, in memory and as stored, never has more than
\* MaxRecentlyViewed entries nor two entries of one id; addToRecentlyViewed(m)
\* puts m at index 0, followed by the other entries in their previous order, and
\* it is the entries at the end of the list that are dropped, only when the list
\* is full.
C9_RecentlyViewed ==
    /\ [](/\ Len(state.recentlyViewed) <= MaxRecentlyViewed
          /\ NoDuplicateId(state.recentlyViewed)
          /\ Len(PersistedRecentlyViewed) <= MaxRecentlyViewed
          /\ NoDuplicateId(PersistedRecentlyViewed))
    /\ [][\A movie \in ViewMovies :
            (ret'.op = "addToRecentlyViewed" /\ AddToRecentlyViewed(movie))
            => LET Other(m) == m.id # movie.id
                   others == SelectSeq(state.recentlyViewed, Other)
                   new == state'.recentlyViewed
               IN /\ Len(new) = Min(Len(others) + 1, MaxRecentlyViewed)
                  /\ new[1] = movie
                  /\ IsPrefix(Tail(new), others)]_vars

\* ids 1 .. MaxRecentlyViewed + 1 were viewed in this order: the list is full, its
\* newest entry first, and the entry of id 1 is gone
C9_Witness ==
    /\ Ids(state.recentlyViewed) = [i \in 1..MaxRecentlyViewed |-> MaxRecentlyViewed + 2 - i]
    /\ ~IsMember(state.recentlyViewed, 1)
    /\ PersistedRecentlyViewed = state.recentlyViewed

\* C10: importFavorites(items) leaves the previous favorites first, unchanged and
\* in their order, followed by exactly the items whose id was no favorite.
C10_ImportIsUnion ==
    [][\A movies \in Batches :
          (ret'.op = "importFavorites" /\ ImportFavorites(movies))
          => LET IsNew(m) == ~IsMember(state.favorites, m.id)
             IN state'.favorites = state.favorites \o SelectSeq(movies, IsNew)]_vars

(***************************************************************************)
(* Movie container properties                                              *)
(***************************************************************************)
CaseInsensitivelyUnique(history) ==
    \A i, j \in 1..Len(history) :
        ToLowerCase(history[i]) = ToLowerCase(history[j]) => i = j

\* a query that is not blank was committed last, by op
Committed(op) == ret.op = op /\ Trim(ret.result[1]) # ""

\* the history StorageService.addToSearchHistory persists is bounded, unique
\* ignoring case and has the query committed last at index 0
PersistedHistoryOrdered ==
    LET history == getSearchHistory(storage)
    IN /\ Len(history) <= MAX_SEARCH_HISTORY
       /\ CaseInsensitivelyUnique(history)
       /\ Committed("addToSearchHistory") => (history # <<>> /\ history[1] = ret.result[1])

\* the history the Movie container holds is bounded, unique ignoring case and
\* has the query committed last at index 0
ContainerHistoryOrdered ==
    LET history == movieState.searchHistory
    IN /\ Len(history) <= MAX_SEARCH_HISTORY
       /\ CaseInsensitivelyUnique(history)
       /\ (Committed("addToSearchHistory") \/ Committed("ADD_TO_SEARCH_HISTORY"))
          => (history # <<>> /\ history[1] = ret.result[1])

\* C12: after any sequence of committed searches the search history, as
\* persisted by addToSearchHistory and as held by the Movie container (also when
\* it is built by ADD_TO_SEARCH_HISTORY), has at most MAX_SEARCH_HISTORY entries,
\* no two entries that are equal ignoring case, and the query committed last at
\* index 0.
C12_SearchHistory == PersistedHistoryOrdered /\ ContainerHistoryOrdered

\* a request that threw error
Failure(error) == [ok |-> FALSE, response |-> <<>>, error |-> error]

\* a step set the error to message and both loading flags to false
ErrorShown(message) ==
    /\ movieState'.error = message
    /\ movieState'.loading = FALSE
    /\ movieState'.searchLoading = FALSE

\* a step left the five lists, the favorites and the search history as they were
DataKept ==
    /\ movieState'.popularMovies = movieState.popularMovies
    /\ movieState'.topRatedMovies = movieState.topRatedMovies
    /\ movieState'.upcomingMovies = movieState.upcomingMovies
    /\ movieState'.nowPlayingMovies = movieState.nowPlayingMovies
    /\ movieState'.searchResults = movieState.searchResults
    /\ movieState'.favorites = movieState.favorites
    /\ movieState'.searchHistory = movieState.searchHistory

\* a step left the pagination fields as they were
PaginationKept ==
    /\ movieState'.currentPage = movieState.currentPage
    /\ movieState'.totalPages = movieState.totalPages
    /\ movieState'.hasMorePages = movieState.hasMorePages

\* a failed fetch or search shows the error and keeps the loaded data
StaleDataKept ==
    [][/\ \A category \in MovieCategories, page \in Pages, error \in Errors :
            FetchMovies(category, page, Failure(error))
            => (ErrorShown(ErrorMessage(error, FetchFallback(category))) /\ DataKept)
       /\ \A query \in SearchQueries, page \in Pages, error \in Errors :
            (Trim(query) # "" /\ SearchMovies(query, page, Failure(error)))
            => (ErrorShown(ErrorMessage(error, "Failed to search movies")) /\ DataKept)]_vars

\* C16: a fetch or search that fails sets error to the failure's message and
\* loading and searchLoading to false, and leaves the five lists, the
\* pagination fields (currentPage, totalPages, hasMorePages), the favorites and
\* the search history exactly as they were before the call.
C16_StaleWhileError ==
    [][/\ \A category \in MovieCategories, page \in Pages, error \in Errors :
            FetchMovies(category, page, Failure(error))
            => /\ ErrorShown(ErrorMessage(error, FetchFallback(category)))
               /\ DataKept
               /\ PaginationKept
       /\ \A query \in SearchQueries, page \in Pages, error \in Errors :
            (Trim(query) # "" /\ SearchMovies(query, page, Failure(error)))
            => /\ ErrorShown(ErrorMessage(error, "Failed to search movies"))
               /\ DataKept
               /\ PaginationKept]_vars

\* a request answered with response
Success(response) == [ok |-> TRUE, response |-> response, error |-> <<>>]

ListNames == {"popularMovies", "topRatedMovies", "upcomingMovies", "nowPlayingMovies",
              "searchResults"}

\* a step loaded a page into the list named list: page 1 replaces the list
\* and sets the pagination from the response, a later page is put after the list;
\* no other list changes
PageLoaded(list, page, response) ==
    /\ page = 1 => /\ movieState'[list] = response.results
                    /\ movieState'.currentPage = response.page
                    /\ movieState'.totalPages = response.total_pages
    /\ page > 1 => movieState'[list] = movieState[list] \o response.results
    /\ \A other \in ListNames \ {list} : movieState'[other] = movieState[other]

\* C17: for each of the five lists, a page-1 load that succeeds replaces the list
\* with the response's results and sets currentPage and totalPages from the
\* response; a load of a later page that succeeds sets the list to the previous
\* list followed by the response's results; every other list is unchanged.
C17_LoadReplacesOrAppends ==
    [][/\ \A category \in MovieCategories, page \in Pages :
            \A response \in Responses(page) :
                FetchMovies(category, page, Success(response))
                => PageLoaded(ListOf(category), page, response)
       /\ \A query \in SearchQueries, page \in Pages :
            \A response \in Responses(page) :
                SearchMovies(query, page, Success(response))
                => PageLoaded("searchResults", page,
                              SearchOutcome(query, Success(response)).response)]_vars

\* page 1 and then page 2 of the popular movies were loaded, and page 1 of the
\* top rated movies and its pagination after them
C17_Witness ==
    /\ movieState.popularMovies = <<Movie(1, "A"), Movie(2, "A")>>
    /\ movieState.topRatedMovies = <<Movie(1, "A")>>
    /\ movieState.currentPage = 1
    /\ movieState.totalPages = MaxPages

(***************************************************************************)
(* Favorites of the MovieProvider: toggleFavorite, next to the Favorites   *)
(* container's addToFavorites                                              *)
(***************************************************************************)
\* the id of a movie that has none: undefined, falsy as 0 is
NoId == 0

\* the movies toggled and added, one of them without an id
ToggleMovies == {Movie(NoId, "A"), Movie(1, "A"), Movie(2, "A")}

\* React renders the MovieProvider again
MovieRender ==
    /\ movieRendered # movieState
    /\ movieRendered' = movieState
    /\ ret' = NoRet
    /\ UNCHANGED <<now, storage, state, rendered, lastSet, movieState, themeVars, flightVars>>

\* loadFavorites()
LoadFavorites ==
    /\ movieState' = DispatchMovie(movieState,
                         <<Action("SET_FAVORITES", getFavorites(storage))>>)
    /\ ret' = Ran("loadFavorites")
    /\ UNCHANGED <<now, storage, state, rendered, lastSet, movieRendered, themeVars, flightVars>>

\* what toggleFavorite threw ("null": nothing) and how many storage writes it issued
Toggled(thrown, writes) ==
    [op |-> "toggleFavorite", key |-> <<>>,
     result |-> <<[thrown |-> thrown, writes |-> writes]>>]

\* toggleFavorite(movie)
ToggleFavorite(movie) ==
    LET invalid == movie.id = NoId
        isCurrentlyFavorite == HasId(movieRendered.favorites, movie.id)
        updatedFavorites ==
            IF isCurrentlyFavorite THEN StorageRemoveFromFavoritesResult(storage, movie.id)
            ELSE StorageAddToFavoritesResult(storage, movie)
        after ==
            IF isCurrentlyFavorite THEN StorageRemoveFromFavorites(storage, movie.id)
            ELSE StorageAddToFavorites(storage, movie)
        writes ==
            IF isCurrentlyFavorite \/ ~HasId(getFavorites(storage), movie.id) THEN 1 ELSE 0
    IN /\ storage' = IF invalid THEN storage ELSE after
       /\ movieState' = DispatchMovie(movieState,
                            IF invalid THEN <<Action("SET_ERROR", "Invalid movie data")>>
                            ELSE <<Action("SET_FAVORITES", updatedFavorites)>>)
       /\ ret' = IF invalid THEN Toggled("Invalid movie data", 0)
                 ELSE Toggled("null", writes)
       /\ UNCHANGED <<now, state, rendered, lastSet, movieRendered, themeVars, flightVars>>

NextToggleFavorite ==
    \/ MovieRender
    \/ LoadFavorites
    \/ \E movie \in ToggleMovies : ToggleFavorite(movie)
    \/ Render
    \/ \E movie \in ToggleMovies : AddToFavorites(movie)

SpecToggleFavorite == Init /\ [][NextToggleFavorite]_vars

\* MovieContext.isFavorite(movieId), as the rendered components call it
MovieIsFavorite(movieId) == HasId(movieRendered.favorites, movieId)
\* the Favorites container's isFavorite(movieId)
isFavorite(movieId) == HasId(rendered.favorites, movieId)

\* both providers have rendered their latest state
BothRendered == movieRendered = movieState /\ rendered = state

\* C30: the application has one notion of favorite: after any sequence of
\* toggles through MovieContext.toggleFavorite and through the Favorites
\* container, once both providers have rendered, MovieContext.isFavorite(id)
\* and the Favorites container's isFavorite(id) agree for every movie id.
C30_OneNotionOfFavorite ==
    BothRendered
    => \A movie \in ToggleMovies : MovieIsFavorite(movie.id) = isFavorite(movie.id)

\* each container answers from its own list, whatever the other holds
ContainersApart ==
    [][/\ (\E movie \in ToggleMovies : ToggleFavorite(movie))
          => state' = state
       /\ (\E movie \in ToggleMovies : AddToFavorites(movie))
          => movieState' = movieState]_vars

\* a step rejected the mutation: nothing written, and the caller was told
ToggleRejected ==
    /\ storage' = storage
    /\ ret'.result[1].writes = 0
    /\ movieState'.favorites = movieState.favorites
    /\ ret'.result[1].thrown # "null"

\* toggleFavorite rejects a movie without an id
ToggleRejectsNoId ==
    [][\A movie \in ToggleMovies :
            (movie.id = NoId /\ ToggleFavorite(movie)) => ToggleRejected]_vars

\* C18: a favorite mutation for a movie with no identifier is rejected before any
\* persistence attempt: no store write, the favorites in memory and persisted are
\* unchanged, and the caller receives an error; for toggleFavorite and for the
\* Favorites container's addToFavorites.
C18_NoIdRejected ==
    [][\A movie \in ToggleMovies :
            movie.id = NoId
            => /\ ToggleFavorite(movie) => ToggleRejected
               /\ AddToFavorites(movie)
                  => /\ storage' = storage
                     /\ state'.favorites = state.favorites
                     /\ state'.error # "null"]_vars

(***************************************************************************)
(* remove and clear next to the stores of the other services               *)
(***************************************************************************)
NextRemoveClear ==
    \/ Tick
    \/ CacheMovieList(<<>>)
    \/ CacheGenres(<<>>)
    \/ CacheFavorites(<<>>)
    \/ CacheRecentlyViewed(<<>>)
    \/ \E key \in EntryKeys : Remove(key)
    \/ Clear
    \/ AddToSearchHistory("Up")
    \/ SetThemeMode("dark")

SpecRemoveClear == Init /\ [][NextRemoveClear]_vars

\* a step removed key: its payload and its metadata entry are gone, every other
\* key's payload and metadata entry are as they were
RemovedOnly(key) ==
    LET Other(entry) == entry.key # key
    IN /\ GetItem(storage', key) = <<>>
       /\ getCacheMetadata(storage') = SelectSeq(getCacheMetadata(storage), Other)
       /\ \A k \in AllKeys \ {key, KEYS.CACHE_METADATA} :
             GetItem(storage', k) = GetItem(storage, k)

\* a step cleared the cache: no cache-prefixed key and no metadata are left, get
\* finds nothing, the statistics count nothing, and the other keys are as they were
ClearedAll ==
    /\ \A k \in AllKeys : StartsWithCache(k) => GetItem(storage', k) = <<>>
    /\ getCacheMetadata(storage') = <<>>
    /\ \A k \in EntryKeys : CacheGetResult(storage', k, now') = None
    /\ getCacheStats(storage').totalItems = 0
    /\ \A k \in AllKeys : ~StartsWithCache(k) => GetItem(storage', k) = GetItem(storage, k)

\* C19: remove(k) deletes the payload and the metadata entry of k and leaves every
\* other key's payload and metadata unchanged; clear() deletes every cache-prefixed
\* entry and the metadata map, so that get returns no value for every cache key and
\* getCacheStats reports totalItems 0, and leaves the keys outside the cache prefix
\* (search history, user preferences, theme mode) unchanged.
C19_RemoveAndClear ==
    [][/\ \A key \in EntryKeys : Remove(key) => RemovedOnly(key)
       /\ Clear => ClearedAll]_vars

\* a clear found two payloads or more, with the search history, the user
\* preferences and the theme mode in the store
C19_Witness ==
    /\ ret.op = "clear"
    /\ ret.result[1] >= 2
    /\ GetItem(storage, STORAGE_KEYS.SEARCH_HISTORY) = <<(<<"Up">>)>>
    /\ GetItem(storage, STORAGE_KEYS.USER_PREFERENCES) # <<>>
    /\ GetItem(storage, THEME_STORAGE_KEY) = <<"dark">>

(***************************************************************************)
(* CacheService calls that overlap.  JavaScript runs one call until its    *)
(* next await; a call in progress stands at the AsyncStorage call it       *)
(* awaits (pc), and a step is the completion of that call: its effect on   *)
(* the store, and the code up to the next AsyncStorage call.               *)
(* lastSet is the entry whose payload write completed last; the removal of *)
(* a payload by remove or by the size pass of the sweep empties it, the    *)
(* removal by expiry handling does not.                                    *)
(***************************************************************************)
Slots == 1..MaxTasks

\* set(key, data, expiresIn) is called: cacheItem is built, setItem is awaited
StartSet(i, key, data, expiresIn) ==
    /\ tasks[i] = Idle
    /\ tasks' = [tasks EXCEPT ![i] =
                    [Idle EXCEPT !.op = "set", !.key = key, !.pc = "setItem",
                                 !.item = <<CacheItem(data, expiresIn, now)>>]]
    /\ ret' = NoRet
    /\ UNCHANGED <<now, storage, state, rendered, lastSet, movieVars, themeVars,
                   requests, mounting>>

\* remove(key) is called: removeItem is awaited
StartRemove(i, key) ==
    /\ tasks[i] = Idle
    /\ tasks' = [tasks EXCEPT ![i] =
                    [Idle EXCEPT !.op = "remove", !.key = key, !.pc = "removeItem"]]
    /\ ret' = NoRet
    /\ UNCHANGED <<now, storage, state, rendered, lastSet, movieVars, themeVars,
                   requests, mounting>>

\* setItem(key, cacheItem) of set, or removeItem(key) of remove, completes;
\* updateCacheMetadata or removeCacheMetadata awaits getCacheMetadata
PayloadDone(i) ==
    LET key == tasks[i].key
        cacheItem == tasks[i].item[1]
    IN /\ tasks[i].pc \in {"setItem", "removeItem"}
       /\ storage' = IF tasks[i].pc = "setItem" THEN SetItem(storage, key, cacheItem)
                     ELSE RemoveItem(storage, key)
       /\ lastSet' = IF tasks[i].pc = "setItem"
                     THEN [lastSet EXCEPT ![key] =
                             <<[data |-> cacheItem.data, timestamp |-> cacheItem.timestamp,
                                ttl |-> cacheItem.expiresIn]>>]
                     ELSE IF tasks[i].op \in {"remove", "evict"}
                     THEN [lastSet EXCEPT ![key] = <<>>]
                     ELSE lastSet
       /\ tasks' = [tasks EXCEPT ![i].pc = "getCacheMetadata"]
       /\ ret' = NoRet
       /\ UNCHANGED <<now, state, rendered, movieVars, themeVars, requests, mounting>>

\* getCacheMetadata completes: metadata[key] = Date.now(), or delete
\* metadata[key], and setItem of the metadata is awaited
MetadataRead(i) ==
    /\ tasks[i].pc = "getCacheMetadata"
    /\ tasks' = [tasks EXCEPT ![i].pc = "setMetadata",
                              ![i].metadata =
                                  IF tasks[i].op = "set"
                                  THEN MetaPut(getCacheMetadata(storage), tasks[i].key, now)
                                  ELSE MetaDelete(getCacheMetadata(storage), tasks[i].key)]
    /\ ret' = NoRet
    /\ UNCHANGED <<now, storage, state, rendered, lastSet, movieVars, themeVars,
                   requests, mounting>>

\* the sweep goes on after a key: to the next key of its expiry pass (op
\* "sweep": getItem) or of its size pass (op "evict": remove), then from the
\* expiry pass to enforceCacheSize, and from the size pass to its end
AfterKey(task) ==
    IF Len(task.keys) > 1
    THEN [task EXCEPT !.keys = Tail(task.keys), !.key = task.keys[2], !.metadata = <<>>,
                      !.pc = IF task.op = "sweep" THEN "getItem" ELSE "removeItem"]
    ELSE IF task.op = "sweep"
    THEN [Idle EXCEPT !.op = "sweep", !.pc = "sizeMetadata"]
    ELSE Idle

\* history: the call that has run to its end
Finished(task) ==
    IF task = Idle THEN NoRet
    ELSE [op |-> task.op, key |-> task.key, result |-> <<>>]

\* setItem of the metadata completes, and with it the set or the remove; a
\* get returns null, the sweep goes on
MetadataWritten(i) ==
    LET after == IF tasks[i].op \in {"sweep", "evict"} THEN AfterKey(tasks[i]) ELSE Idle
    IN /\ tasks[i].pc = "setMetadata"
       /\ storage' = SetItem(storage, KEYS.CACHE_METADATA, tasks[i].metadata)
       /\ tasks' = [tasks EXCEPT ![i] = after]
       /\ ret' = IF after = Idle
                 THEN [op |-> IF tasks[i].op = "evict" THEN "sweep" ELSE tasks[i].op,
                       key |-> tasks[i].key, result |-> <<>>]
                 ELSE NoRet
       /\ UNCHANGED <<now, state, rendered, lastSet, movieVars, themeVars,
                      requests, mounting>>

\* get(key) is called: getItem is awaited
StartGet(i, key) ==
    /\ tasks[i] = Idle
    /\ tasks' = [tasks EXCEPT ![i] = [Idle EXCEPT !.op = "get", !.key = key, !.pc = "getItem"]]
    /\ ret' = NoRet
    /\ UNCHANGED <<now, storage, state, rendered, lastSet, movieVars, themeVars,
                   requests, mounting>>

\* the setInterval callback runs cleanupExpiredItems: getCacheMetadata is awaited
StartSweep(i) ==
    /\ tasks[i] = Idle
    /\ tasks' = [tasks EXCEPT ![i] = [Idle EXCEPT !.op = "sweep", !.pc = "sweepMetadata"]]
    /\ ret' = NoRet
    /\ UNCHANGED <<now, storage, state, rendered, lastSet, movieVars, themeVars,
                   requests, mounting>>

\* getCacheMetadata of cleanupExpiredItems completes: the loop over its keys
SweepMetadataRead(i) ==
    LET keys == MetaKeySeq(getCacheMetadata(storage))
    IN /\ tasks[i].pc = "sweepMetadata"
       /\ tasks' = [tasks EXCEPT ![i] =
                       IF keys = <<>> THEN [tasks[i] EXCEPT !.pc = "sizeMetadata"]
                       ELSE [tasks[i] EXCEPT !.keys = keys, !.key = Head(keys),
                                             !.pc = "getItem"]]
       /\ ret' = NoRet
       /\ UNCHANGED <<now, storage, state, rendered, lastSet, movieVars, themeVars,
                      requests, mounting>>

\* getItem(key) of get or of the sweep completes: an expired item is removed, and
\* removeItem is awaited; else get returns, and the sweep goes on
ItemRead(i) ==
    LET key == tasks[i].key
        cached == GetItem(storage, key)
        expired == cached # <<>> /\ isCacheExpired(cached[1], now)
        after == IF expired THEN [tasks[i] EXCEPT !.pc = "removeItem"]
                 ELSE IF tasks[i].op = "sweep" THEN AfterKey(tasks[i])
                 ELSE Idle
    IN /\ tasks[i].pc = "getItem"
       /\ tasks' = [tasks EXCEPT ![i] = after]
       /\ ret' = IF after = Idle
                 THEN [op |-> "get", key |-> key, result |-> CacheGetResult(storage, key, now)]
                 ELSE NoRet
       /\ UNCHANGED <<now, storage, state, rendered, lastSet, movieVars, themeVars,
                      requests, mounting>>

\* getCacheMetadata of enforceCacheSize completes: the oldest entries beyond
\* maxCacheSize are removed one after the other
SizeMetadataRead(i) ==
    LET toRemove == MetaKeySeq(ToRemove(storage))
    IN /\ tasks[i].pc = "sizeMetadata"
       /\ tasks' = [tasks EXCEPT ![i] =
                       IF toRemove = <<>> THEN Idle
                       ELSE [Idle EXCEPT !.op = "evict", !.keys = toRemove,
                                         !.key = Head(toRemove), !.pc = "removeItem"]]
       /\ ret' = IF toRemove = <<>> THEN Ran("sweep") ELSE NoRet
       /\ UNCHANGED <<now, storage, state, rendered, lastSet, movieVars, themeVars,
                      requests, mounting>>

NextOverlap ==
    \/ \E i \in Slots, key \in SetKeys : StartSet(i, key, <<>>, 0)
    \/ \E i \in Slots, key \in SetKeys : StartRemove(i, key)
    \/ \E i \in Slots : PayloadDone(i)
    \/ \E i \in Slots : MetadataRead(i)
    \/ \E i \in Slots : MetadataWritten(i)

SpecOverlap == Init /\ [][NextOverlap]_vars

\* every call has run to its end
Quiescent == \A i \in Slots : tasks[i] = Idle

\* a set, with a get or the sweep at any of their awaits, as time passes
NextExpiry ==
    \/ Tick
    \/ \E i \in Slots : StartSet(i, KEYS.POPULAR_MOVIES, <<>>, 1)
    \/ \E i \in Slots : StartGet(i, KEYS.POPULAR_MOVIES)
    \/ \E i \in Slots : StartSweep(i)
    \/ \E i \in Slots : PayloadDone(i)
    \/ \E i \in Slots : MetadataRead(i)
    \/ \E i \in Slots : MetadataWritten(i)
    \/ \E i \in Slots : SweepMetadataRead(i)
    \/ \E i \in Slots : ItemRead(i)
    \/ \E i \in Slots : SizeMetadataRead(i)

SpecExpiry == Init /\ [][NextExpiry]_vars

\* the entry of key whose payload write completed last has not expired
Fresh(key) ==
    /\ lastSet[key] # <<>>
    /\ now - lastSet[key][1].timestamp <= lastSet[key][1].ttl

\* C28: an unexpired cache entry is never deleted by expiry handling: however a
\* get(k) or the sweep and a set(k, v) overlap at their awaits, once all of them
\* have run to their end the entry written by the set is stored, and is what a
\* get(k) within its ttl returns.
C28_FreshEntryKept ==
    Quiescent
    => \A key \in SetKeys :
           Fresh(key)
           => /\ GetItem(storage, key) # <<>>
              /\ CacheGetResult(storage, key, now) = Present(lastSet[key][1].data)

\* C21: when every one of the set and remove calls that ran, however they
\* overlapped, has run to its end with no storage failure, the metadata map has
\* an entry for exactly the keys whose payload is stored.
C21_MetadataConsistent ==
    Quiescent => MetaKeys(getCacheMetadata(storage)) = CachedEntries(storage)

\* the same when no call starts while another is in progress
NeverOverlapping ==
    [][\A i \in Slots : tasks[i] = Idle /\ tasks'[i] # Idle => Quiescent]_vars

(***************************************************************************)
(* The actions of movieReducer that touch the lists and the pagination,    *)
(* dispatched in any order with any payload                                *)
(***************************************************************************)
\* dispatch(action)
Reduce(action) ==
    /\ movieState' = movieReducer(movieState, action)
    /\ Loaded(movieState') <= MaxMovies
    /\ ret' = NoRet
    /\ UNCHANGED <<now, storage, state, rendered, lastSet, movieRendered, themeVars,
                   flightVars>>

\* the pages a payload may hold: none, or one movie
PagePayloads == {<<>>, <<Movie(1, "A")>>}

\* total_pages of a response: 0 for the answer to a blank query
TotalPages == 0..MaxPages

NextPagination ==
    \/ \E category \in MovieCategories, movies \in PagePayloads, page \in Pages,
          totalPages \in TotalPages :
          Reduce(Action(SetType(category),
                        [movies |-> movies, page |-> page, totalPages |-> totalPages]))
    \/ \E results \in PagePayloads, page \in Pages, totalPages \in TotalPages :
          Reduce(Action("SET_SEARCH_RESULTS",
                        [results |-> results, page |-> page, totalPages |-> totalPages]))
    \/ \E category \in MovieCategories, movies \in PagePayloads :
          Reduce(Action(AppendType(category), movies))
    \/ \E results \in PagePayloads : Reduce(Action("APPEND_SEARCH_RESULTS", results))
    \/ Reduce(Action("CLEAR_SEARCH_RESULTS", <<>>))
    \/ Reduce(Action("RESET_PAGINATION", <<>>))
    \/ \E category \in MovieCategories \cup {"search"} :
          Reduce(Action("SET_SELECTED_CATEGORY", category))
    \/ \E message \in {"Network Error", "null"} : Reduce(Action("SET_ERROR", message))

SpecPagination == Init /\ [][NextPagination]_vars

\* C25: in every reachable state of the Movie Browsing container hasMorePages
\* equals (currentPage < totalPages), after any sequence of SET_*, APPEND_*,
\* CLEAR_SEARCH_RESULTS, RESET_PAGINATION, SET_SELECTED_CATEGORY and SET_ERROR
\* actions.
C25_HasMorePages ==
    movieState.hasMorePages = (movieState.currentPage < movieState.totalPages)

\* a first page of several was set, a page was appended, another category was
\* selected and an error was set
C25_Witness ==
    /\ movieState.hasMorePages
    /\ movieState.currentPage = 1
    /\ movieState.totalPages = MaxPages
    /\ Len(movieState.popularMovies) = 2
    /\ movieState.selectedCategory = "top_rated"
    /\ movieState.error = "Network Error"

(***************************************************************************)
(* loadMoreMovies and setSelectedCategory.  loadMoreMovies reads the state *)
(* of the render it was created in (movieRendered).                        *)
(***************************************************************************)
\* history of a loadMoreMovies: the page it requested and whether it was answered
LoadedMore(page, ok) ==
    [op |-> "loadMoreMovies", key |-> <<>>, result |-> <<[page |-> page, ok |-> ok]>>]

\* setSelectedCategory(category)
SetSelectedCategory(category) ==
    /\ movieState.selectedCategory # category
    /\ Reduce(Action("SET_SELECTED_CATEGORY", category))

\* loadMoreMovies(), when it does not return at once
LoadMoreMovies(outcome) ==
    LET st == movieRendered
        nextPage == st.currentPage + 1
        category == st.selectedCategory
        answer == SearchOutcome(st.searchQuery, outcome)
        recorded == answer.ok /\ Trim(st.searchQuery) # ""
        updatedHistory == StorageAddToSearchHistoryResult(storage, st.searchQuery)
    IN /\ st.hasMorePages /\ ~st.loading
       /\ category \notin MovieCategories => st.searchQuery # ""
       /\ Loaded(movieState) < MaxMovies
       /\ IF category \in MovieCategories
          THEN /\ movieState' = DispatchMovie(movieState,
                                    FetchDispatches(category, nextPage, outcome))
               /\ storage' = storage
               /\ ret' = LoadedMore(nextPage, outcome.ok)
          ELSE /\ movieState' = DispatchMovie(movieState,
                                    SearchDispatches(st.searchQuery, nextPage, answer)
                                    \o (IF recorded
                                        THEN <<Action("SET_SEARCH_HISTORY", updatedHistory)>>
                                        ELSE <<>>))
               /\ storage' = IF recorded
                             THEN StorageAddToSearchHistory(storage, st.searchQuery)
                             ELSE storage
               /\ ret' = LoadedMore(nextPage, answer.ok)
       /\ UNCHANGED <<now, state, rendered, lastSet, movieRendered, themeVars, flightVars>>

\* what the request of the page after the rendered one may be answered with
MoreOutcomes == Outcomes(movieRendered.currentPage + 1)

NextLoadMore ==
    \/ MovieRender
    \/ \E category \in {"popular", "top_rated", "search"} : SetSelectedCategory(category)
    \/ \E outcome \in Outcomes(1) : FetchPopularMovies(1, outcome)
    \/ \E outcome \in Outcomes(1) : FetchTopRatedMovies(1, outcome)
    \/ \E outcome \in Outcomes(1) : SearchMovies("Up", 1, outcome)
    \/ \E outcome \in MoreOutcomes : LoadMoreMovies(outcome)

SpecLoadMore == Init /\ [][NextLoadMore]_vars

\* C26: load-more makes progress: a loadMoreMovies that was answered has
\* advanced the pagination cursor, currentPage is the page it appended, so that
\* the next call requests the page after it and none twice; and hasMorePages is
\* false once the last page has been loaded.
C26_LoadMoreAdvances ==
    (ret.op = "loadMoreMovies" /\ ret.result[1].ok)
    => /\ movieState.currentPage = ret.result[1].page
       /\ ret.result[1].page >= movieState.totalPages => ~movieState.hasMorePages

\* loadMoreMovies requests the page after the rendered currentPage
LoadMoreRequestsNext ==
    ret.op = "loadMoreMovies" => ret.result[1].page = movieRendered.currentPage + 1

\* page 2 of the popular movies is not loaded twice
NoPageTwice ==
    movieState.popularMovies # <<Movie(1, "A"), Movie(2, "A"), Movie(2, "A")>>

(***************************************************************************)
(* FavoritesProvider: loadCachedData in flight.  The provider mounts, its  *)
(* effect calls loadCachedData, the two reads of the cache complete, and   *)
(* the handler dispatches what they returned; the handlers of the provider *)
(* may run in between.                                                     *)
(***************************************************************************)
\* the app starts: the provider mounts with initialState, loadCachedData
\* dispatches SET_LOADING and awaits its two reads
MountStart ==
    /\ ~mounting.inFlight
    /\ state' = Dispatch(initialState, <<Action("SET_LOADING", TRUE)>>)
    /\ rendered' = initialState
    /\ mounting' = [NotMounting EXCEPT !.inFlight = TRUE]
    /\ ret' = NoRet
    /\ UNCHANGED <<now, storage, lastSet, movieVars, themeVars, tasks, requests>>

\* getCachedFavorites() and getCachedRecentlyViewed() complete
MountRead ==
    LET afterFavorites == CacheGetStorage(storage, KEYS.FAVORITES, now)
    IN /\ mounting.inFlight /\ ~mounting.read
       /\ mounting' = [mounting EXCEPT
                         !.read = TRUE,
                         !.cachedFavorites = CacheGetResult(storage, KEYS.FAVORITES, now),
                         !.cachedRecentlyViewed =
                             CacheGetResult(afterFavorites, KEYS.RECENTLY_VIEWED, now)]
       /\ storage' = CacheGetStorage(afterFavorites, KEYS.RECENTLY_VIEWED, now)
       /\ ret' = NoRet
       /\ UNCHANGED <<now, state, rendered, lastSet, movieVars, themeVars, tasks, requests>>

\* loadCachedData after its await: the dispatches of what was read
MountDone ==
    /\ mounting.inFlight /\ mounting.read
    /\ state' = Dispatch(state, Tail(LoadActions(mounting.cachedFavorites,
                                                 mounting.cachedRecentlyViewed)))
    /\ mounting' = NotMounting
    /\ ret' = Ran("loadCachedData")
    /\ UNCHANGED <<now, storage, rendered, lastSet, movieVars, themeVars, tasks, requests>>

\* the movies added while the provider mounts
MountMovies == {Movie(1, "A"), Movie(2, "A")}

NextMount ==
    \/ MountStart
    \/ MountRead
    \/ MountDone
    \/ Render
    \/ \E movie \in MountMovies : AddToFavorites(movie)
    \/ \E movie \in MountMovies : AddToRecentlyViewed(movie)

SpecMount == Init /\ [][NextMount]_vars

\* every movie of list is in kept
AllIn(list, kept) ==
    \A i \in 1..Len(list) : \E j \in 1..Len(kept) : kept[j] = list[i]

\* nothing is lost when the cache held neither collection
KeptWhenNothingCached ==
    [][(MountDone /\ mounting.cachedFavorites = None /\ mounting.cachedRecentlyViewed = None)
       => /\ AllIn(state.favorites, state'.favorites)
          /\ AllIn(state.recentlyViewed, state'.recentlyViewed)]_vars

\* C29: a mutation made before the initial load finishes is not lost: what
\* addToFavorites or addToRecentlyViewed added while loadCachedData was in
\* flight (all that the collections hold when it completes, the provider having
\* mounted with empty ones) is in the in-memory collection after it completes.
C29_MutationSurvivesLoad ==
    [][MountDone => /\ AllIn(state.favorites, state'.favorites)
                    /\ AllIn(state.recentlyViewed, state'.recentlyViewed)]_vars

(***************************************************************************)
(* MovieProvider requests in flight.  A fetch or a search dispatches up to *)
(* its await of the movie API and is then in flight (requests, in the      *)
(* order sent); its response arrives in a later step, in any order, and    *)
(* the handler runs to its end.  Nothing cancels a request.                *)
(***************************************************************************)
\* mutant: the response is dropped
ResponseDropped(request, outcome) == <<>>

\* the dispatches of a fetch before its await
FetchSent(page) ==
    IF page = 1
    THEN <<Action("SET_LOADING", TRUE), Action("RESET_PAGINATION", <<>>)>>
    ELSE <<>>

\* the dispatches of searchMovies before its await
SearchSent(query, page) ==
    <<Action("SET_SEARCH_QUERY", query)>>
    \o (IF page = 1
        THEN <<Action("SET_SEARCH_LOADING", TRUE), Action("RESET_PAGINATION", <<>>)>>
        ELSE <<>>)

\* a request in flight; overtaken is history: a request for the same list that
\* was sent later has been answered already
FetchRequest(category, page) ==
    [kind |-> "fetch", list |-> ListOf(category), category |-> category,
     query |-> "", page |-> page, overtaken |-> FALSE]
SearchRequest(query, page) ==
    [kind |-> "search", list |-> "searchResults", category |-> "",
     query |-> query, page |-> page, overtaken |-> FALSE]

\* the answers the movie API may give: the movie of a search is named after
\* the query, a category's page may hold one movie or another
Answers(request) ==
    LET titles == IF request.kind = "search" THEN {request.query} ELSE {"A", "B"}
    IN {[ok |-> TRUE, error |-> <<>>,
         response |-> [page |-> request.page, results |-> <<Movie(request.page, title)>>,
                       total_pages |-> n]] : title \in titles, n \in 1..MaxPages}
       \cup {[ok |-> FALSE, response |-> <<>>,
              error |-> [isError |-> TRUE, message |-> "Network Error"]]}

\* the answer the handler sees: tmdbService answers a blank query itself
Seen(request, outcome) ==
    IF request.kind = "search" THEN SearchOutcome(request.query, outcome) ELSE outcome

\* the dispatches of a handler after its await, up to addToSearchHistory
Arrived(request, outcome) ==
    LET answer == Seen(request, outcome)
    IN IF ~answer.ok
       THEN <<Action("SET_ERROR",
                     ErrorMessage(answer.error,
                                  IF request.kind = "search" THEN "Failed to search movies"
                                  ELSE FetchFallback(request.category)))>>
       ELSE IF request.page = 1
       THEN IF request.kind = "search"
            THEN <<Action("SET_SEARCH_RESULTS",
                          [results |-> answer.response.results,
                           page |-> answer.response.page,
                           totalPages |-> answer.response.total_pages])>>
            ELSE <<Action(SetType(request.category),
                          [movies |-> answer.response.results,
                           page |-> answer.response.page,
                           totalPages |-> answer.response.total_pages])>>
       ELSE IF request.kind = "search"
            THEN <<Action("APPEND_SEARCH_RESULTS", answer.response.results)>>
            ELSE <<Action(AppendType(request.category), answer.response.results)>>

\* the request is sent
Sent(request, dispatches) ==
    /\ Len(requests) < MaxRequests
    /\ movieState' = DispatchMovie(movieState, dispatches)
    /\ requests' = Append(requests, request)
    /\ ret' = NoRet
    /\ UNCHANGED <<now, storage, state, rendered, lastSet, movieRendered, themeVars,
                   tasks, mounting>>

\* fetchPopularMovies(page) and its siblings, up to the await
SendFetch(category, page) == Sent(FetchRequest(category, page), FetchSent(page))

\* searchMovies(query, page), up to the await
SendSearch(query, page) == Sent(SearchRequest(query, page), SearchSent(query, page))

\* history: the request answered last, and its answer
Answered(request, answer) ==
    [op |-> "answered", key |-> <<>>,
     result |-> <<[request |-> request, answer |-> answer]>>]

\* the requests left in flight when the i-th is answered
StillInFlight(i) ==
    [j \in 1..(Len(requests) - 1) |->
        IF j < i
        THEN [requests[j] EXCEPT !.overtaken = @ \/ requests[j].list = requests[i].list]
        ELSE requests[j + 1]]

\* the response to the i-th request in flight arrives; a search that was
\* answered records its query
Arrive(i, outcome) ==
    LET request == requests[i]
        answer == Seen(request, outcome)
        recorded == request.kind = "search" /\ answer.ok /\ Trim(request.query) # ""
        updatedHistory == StorageAddToSearchHistoryResult(storage, request.query)
    IN /\ Loaded(movieState) < MaxMovies
       /\ movieState' = DispatchMovie(movieState,
                            Arrived(request, outcome)
                            \o (IF recorded
                                THEN <<Action("SET_SEARCH_HISTORY", updatedHistory)>>
                                ELSE <<>>))
       /\ storage' = IF recorded THEN StorageAddToSearchHistory(storage, request.query)
                     ELSE storage
       /\ requests' = StillInFlight(i)
       /\ ret' = Answered(request, answer)
       /\ UNCHANGED <<now, state, rendered, lastSet, movieRendered, themeVars,
                      tasks, mounting>>

\* the categories and the queries requested while others are in flight
FlightCategories == {"popular"}
FlightQueries == {"Up", "Jaws"}

NextInFlight ==
    \/ \E category \in FlightCategories, page \in Pages : SendFetch(category, page)
    \/ \E query \in FlightQueries, page \in Pages : SendSearch(query, page)
    \/ \E i \in 1..Len(requests) : \E outcome \in Answers(requests[i]) : Arrive(i, outcome)

SpecInFlight == Init /\ [][NextInFlight]_vars

\* refreshData(), up to the await of the handler it calls: it reads the
\* category and the query of the render it was created in
SendRefresh ==
    LET category == movieRendered.selectedCategory
        query == movieRendered.searchQuery
        loading == <<Action("SET_LOADING", TRUE)>>
    IN IF category \in MovieCategories
       THEN Sent(FetchRequest(category, 1), loading \o FetchSent(1))
       ELSE IF query # ""
       THEN Sent(SearchRequest(query, 1), loading \o SearchSent(query, 1))
       ELSE Sent(FetchRequest("popular", 1), loading \o FetchSent(1))

NextSettle ==
    \/ MovieRender
    \/ \E category \in {"popular", "search"} : SetSelectedCategory(category)
    \/ SendSearch("Up", 1)
    \/ SendRefresh
    \/ \E i \in 1..Len(requests) : \E outcome \in Answers(requests[i]) : Arrive(i, outcome)

SpecSettle == Init /\ [][NextSettle]_vars

\* C27: the loading flags settle: whenever a fetch, a searchMovies or a
\* refreshData call has completed, with an answer or with a failure, and no
\* request is in flight, loading and searchLoading are false, whatever
\* selectedCategory and searchQuery are.
C27_LoadingSettles ==
    (ret.op = "answered" /\ requests = <<>>)
    => ~movieState.loading /\ ~movieState.searchLoading

\* the i-th request in flight is a request of page 1 that a request sent later
\* for the same list has overtaken
Superseded(i) == requests[i].overtaken /\ requests[i].page = 1

\* C23: a request in flight is not cancelled when a later one supersedes it, and
\* the response that arrives last wins: when searchMovies(q1) was sent before
\* searchMovies(q2) and q1's response arrives after q2's, searchResults holds
\* q1's results while searchQuery is q2; and the response of the earlier of two
\* overlapping page-1 fetches of a category, arriving last, is the list.
C23_LastArrivalWins ==
    [][\A i \in 1..Len(requests) : \A outcome \in Answers(requests[i]) :
            (Arrive(i, outcome) /\ Superseded(i) /\ outcome.ok)
            => /\ movieState'[requests[i].list] = outcome.response.results
               /\ requests[i].kind = "search"
                  => /\ movieState'.searchResults = <<Movie(1, requests[i].query)>>
                     /\ movieState'.searchQuery = movieState.searchQuery]_vars

\* searchMovies("Up") was sent, then searchMovies("Jaws"); the answer to "Jaws"
\* arrived, then the answer to "Up"
C23_Witness ==
    /\ requests = <<>>
    /\ ret.op = "answered"
    /\ ret.result[1].request.overtaken
    /\ ret.result[1].request.query = "Up"
    /\ movieState.searchQuery = "Jaws"
    /\ movieState.searchResults = <<Movie(1, "Up")>>

\* two page-1 fetches of the popular movies overlapped; the answer to the first
\* arrived last and is the list
OvertakenFetchWon ==
    /\ ret.op = "answered"
    /\ ret.result[1].request.overtaken
    /\ ret.result[1].request.kind = "fetch"
    /\ ret.result[1].request.page = 1
    /\ ret.result[1].answer.ok
    /\ movieState.popularMovies = ret.result[1].answer.response.results

(***************************************************************************)
(* Theme container properties                                              *)
(***************************************************************************)

\* C13: in every state of the Theme container, a mode of light or dark has the
\* scheme equal to the mode whatever the platform reports, and the mode system
\* has the scheme equal to the platform's scheme, through every change of it.
C13_ThemeScheme ==
    /\ themeState.mode \in {"light", "dark"} => themeState.scheme = themeState.mode
    /\ themeState.mode = "system" => themeState.scheme = getSystemColorScheme(platform)

\* the reducer yields the same state for action, whatever the platform reports
SameInEveryScheme(action) ==
    \A first, second \in ColorSchemeNames :
        themeReducer(themeState, action, first) = themeReducer(themeState, action, second)

\* the actions of the theme container other than SET_MODE
OtherThemeActionsDeterministic ==
    /\ \A scheme \in {"light", "dark"} : SameInEveryScheme(Action("SET_SCHEME", scheme))
    /\ \A isLoading \in BOOLEAN : SameInEveryScheme(Action("SET_LOADING", isLoading))
    /\ \A mode \in ThemeModes, scheme \in {"light", "dark"} :
          SameInEveryScheme(Action("INITIALIZE", [mode |-> mode, scheme |-> scheme]))

\* the reducer is deterministic for a mode chosen by the user
ChosenModeDeterministic ==
    /\ \A mode \in {"light", "dark"} : SameInEveryScheme(Action("SET_MODE", mode))
    /\ OtherThemeActionsDeterministic

\* C24: every container reducer is deterministic: two applications of the same
\* action to the same state yield the same next state, whatever the platform's
\* colour scheme is at the time of each application.  movieReducer and
\* favoritesReducer read their two arguments only; themeReducer also reads
\* the platform's colour scheme.
C24_ReducersDeterministic ==
    /\ \A mode \in ThemeModes : SameInEveryScheme(Action("SET_MODE", mode))
    /\ OtherThemeActionsDeterministic

====
